---- MODULE Spec2Model ----
(***************************************************************************)
(* Model of codemirror-ai: the next-edit-prediction diff engine            *)
(* (extractDiffOperation, findLargestDiffBound, applyDiffOperation), the   *)
(* next-edit-prediction editor extension with its debounced fetch plugin,  *)
(* the oxen prediction backend with its cancellation token, and the        *)
(* capacity-based cached predictor.                                        *)
(*                                                                         *)
(* A text is a sequence of characters.  The cursor marker string           *)
(* "<|user_cursor_is_here|>" is one element of such a sequence; the texts  *)
(* of the model carry it at most once, so that its own length never        *)
(* enters an offset (indexOf counts the characters before it, replace      *)
(* removes it).                                                            *)
(***************************************************************************)
EXTENDS Integers, Sequences, FiniteSets, TLC

\* ------------------------------------------------------------------ bounds

\* Longest marker-stripped text of a suggestion.
MaxLen == 3

\* Text objects the editor creates (document versions), the initial one
\* included.
MaxDocs == 4

\* Longest document.
MaxDocLen == 2

\* Invocations of the oxen predictor.
MaxRequests == 2

\* Calls of the cached predictor.
MaxCalls == 4

\* Calls of the cached predictor that await their delegate at one time.
MaxInFlight == 2

\* Largest capacity of the cached predictor.
MaxCacheSize == 2

\* The largest cacheTimeout of the inline-suggestion cache, and the time the
\* clock stops at.
MaxTimeout == 1
MaxNow == 2

\* Longest prediction cleaned, in characters and parts of special tokens,
\* and in characters and whole special tokens.
MaxPredictionLen == 4
MaxTokens == 4

\* Document changes in a run of the inline-suggestion extension, and the
\* length of its documents.
MaxEdits == 3
MaxInlineLen == 1
\* MAX_PROMPTS, 50 in the source, at the scale of the model.
MAX_PROMPTS == 2

\* Words in a text handed to the diff computer.
MaxWords == 3

\* The AI-edit extension: characters in the document the user types,
\* calls of the complete function, prompt inputs rendered, and the
\* line number the input state is allowed to reach.
MaxAiLen == 2
MaxSubmits == 2
MaxWidgets == 2
MaxLine == 3

MIN_SELECTION_LENGTH == 1

\* Characters of the texts: word characters only (no whitespace, no
\* punctuation), so that a non-empty text is a single word token.
Alphabet == {"a", "b"}

\* ------------------------------------------------------------- constants

CURSOR_MARKER == "M"

\* The capacity of the cached predictor when none is given.
DEFAULT_MAX_SIZE == 20

\* JavaScript null, for cursorPosition: number | null.  An integer that
\* indexOf never returns.
null == -2

\* ------------------------------------------------------- string helpers

Min(a, b) == IF a < b THEN a ELSE b
Max(a, b) == IF a > b THEN a ELSE b

\* String.prototype.includes
includes(text, m) == \E i \in 1..Len(text) : text[i] = m

\* String.prototype.indexOf: 0-based offset of the first occurrence, or -1
indexOf(text, m) ==
  IF includes(text, m)
    THEN (CHOOSE i \in 1..Len(text) :
            text[i] = m /\ \A j \in 1..(i - 1) : text[j] # m) - 1
    ELSE -1

\* String.prototype.replace(m, ""): removes the first occurrence only
replace(text, m) ==
  IF includes(text, m)
    THEN LET i == indexOf(text, m) + 1
         IN SubSeq(text, 1, i - 1) \o SubSeq(text, i + 1, Len(text))
    ELSE text

\* An index argument of String.prototype.slice, clamped as JavaScript does
sliceIndex(i, len) == IF i < 0 THEN Max(len + i, 0) ELSE Min(i, len)

\* String.prototype.slice(start, end)
slice(text, start, end) ==
  SubSeq(text, sliceIndex(start, Len(text)) + 1, sliceIndex(end, Len(text)))

\* String.prototype.slice(start)
sliceFrom(text, start) == slice(text, start, Len(text))

RECURSIVE Flatten(_)
Flatten(ss) == IF ss = <<>> THEN <<>> ELSE Head(ss) \o Flatten(Tail(ss))

\* ------------------------------------------- the diff library (Myers O(ND))

\* A path of the edit graph: the 0-based index of the last old token it has
\* consumed and its components, oldest first.  def = FALSE is `undefined`.
NoPath == [def |-> FALSE, oldPos |-> -1, comps |-> <<>>]

\* Stands for Infinity in minDiagonalToConsider / maxDiagonalToConsider.
Infinity(old, new) == Len(old) + Len(new) + 2

RECURSIVE commonCount(_, _, _, _)
commonCount(old, new, oldPos, newPos) ==
  IF newPos + 1 < Len(new) /\ oldPos + 1 < Len(old)
       /\ old[oldPos + 2] = new[newPos + 2]
    THEN 1 + commonCount(old, new, oldPos + 1, newPos + 1)
    ELSE 0

\* Follows the diagonal while the tokens are equal; one unchanged component.
extractCommon(basePath, new, old, diagonalPath) ==
  LET c == commonCount(old, new, basePath.oldPos, basePath.oldPos - diagonalPath)
  IN [def |-> TRUE,
      oldPos |-> basePath.oldPos + c,
      comps |-> IF c > 0
                  THEN Append(basePath.comps,
                              [count |-> c, added |-> FALSE, removed |-> FALSE])
                  ELSE basePath.comps]

\* One more added or removed token; merged into the last component if that
\* has the same kind.
addToPath(path, added, removed, oldPosInc) ==
  LET n == Len(path.comps)
      last == path.comps[n]
  IN IF n > 0 /\ last.added = added /\ last.removed = removed
       THEN [def |-> TRUE,
             oldPos |-> path.oldPos + oldPosInc,
             comps |-> [path.comps EXCEPT ![n].count = @ + 1]]
       ELSE [def |-> TRUE,
             oldPos |-> path.oldPos + oldPosInc,
             comps |-> Append(path.comps,
                              [count |-> 1, added |-> added, removed |-> removed])]

\* The loop of execEditLength, one diagonal per call; the result is the
\* component list of the first path that reaches the end of both sequences.
RECURSIVE execEditLength(_, _, _, _, _, _, _)
execEditLength(old, new, editLength, diagonalPath, bestPath, minD, maxD) ==
  IF editLength > Len(old) + Len(new) THEN <<>>
  ELSE IF diagonalPath > Min(maxD, editLength)
    THEN execEditLength(old, new, editLength + 1,
                        Max(minD, -(editLength + 1)), bestPath, minD, maxD)
  ELSE
    LET removePath == bestPath[diagonalPath - 1]
        addPath == bestPath[diagonalPath + 1]
        cleared == IF removePath.def
                     THEN [bestPath EXCEPT ![diagonalPath - 1] = NoPath]
                     ELSE bestPath
        addPathNewPos == addPath.oldPos - diagonalPath
        canAdd == addPath.def /\ 0 <= addPathNewPos /\ addPathNewPos < Len(new)
        canRemove == removePath.def /\ removePath.oldPos + 1 < Len(old)
    IN IF ~canAdd /\ ~canRemove
         THEN execEditLength(old, new, editLength, diagonalPath + 2,
                             [cleared EXCEPT ![diagonalPath] = NoPath], minD, maxD)
         ELSE
           LET stepped == IF ~canRemove \/ (canAdd /\ removePath.oldPos < addPath.oldPos)
                            THEN addToPath(addPath, TRUE, FALSE, 0)
                            ELSE addToPath(removePath, FALSE, TRUE, 1)
               basePath == extractCommon(stepped, new, old, diagonalPath)
               newPos == basePath.oldPos - diagonalPath
           IN IF basePath.oldPos + 1 >= Len(old) /\ newPos + 1 >= Len(new)
                THEN basePath.comps
                ELSE execEditLength(old, new, editLength, diagonalPath + 2,
                       [cleared EXCEPT ![diagonalPath] = basePath],
                       IF newPos + 1 >= Len(new)
                         THEN Max(minD, diagonalPath + 1) ELSE minD,
                       IF basePath.oldPos + 1 >= Len(old)
                         THEN Min(maxD, diagonalPath - 1) ELSE maxD)

\* The components of the shortest edit script between two token sequences.
diffComponents(old, new) ==
  LET inf == Infinity(old, new)
      seed == extractCommon([def |-> TRUE, oldPos |-> -1, comps |-> <<>>], new, old, 0)
      bestPath == [d \in (-inf - 1)..(inf + 1) |-> IF d = 0 THEN seed ELSE NoPath]
  IN IF seed.oldPos + 1 >= Len(old) /\ seed.oldPos + 1 >= Len(new)
       THEN seed.comps
       ELSE execEditLength(old, new, 1, -1, bestPath, -inf, inf)

\* buildValues: the tokens of each component; a removed component takes
\* them from the old sequence, every other one from the new sequence.
RECURSIVE buildValues(_, _, _, _, _)
buildValues(comps, new, old, newPos, oldPos) ==
  IF comps = <<>> THEN <<>>
  ELSE LET c == Head(comps)
       IN IF ~c.removed
            THEN <<[tokens |-> SubSeq(new, newPos + 1, newPos + c.count),
                    added |-> c.added, removed |-> FALSE]>>
                 \o buildValues(Tail(comps), new, old, newPos + c.count,
                                IF c.added THEN oldPos ELSE oldPos + c.count)
            ELSE <<[tokens |-> SubSeq(old, oldPos + 1, oldPos + c.count),
                    added |-> FALSE, removed |-> TRUE]>>
                 \o buildValues(Tail(comps), new, old, newPos, oldPos + c.count)

\* diffChars: every character is a token; a chunk's value is its characters.
diffChars(oldStr, newStr) ==
  LET parts == buildValues(diffComponents(oldStr, newStr), newStr, oldStr, 0, 0)
  IN [i \in 1..Len(parts) |->
        [value |-> parts[i].tokens, added |-> parts[i].added,
         removed |-> parts[i].removed]]

Whitespace == {" ", "\n", "\t", "\r"}

\* The length of the first token of a text of letters and whitespace: the
\* longest prefix that is all whitespace or all letters.
runLength(str) ==
  LET same(i) == (str[i] \in Whitespace) = (str[1] \in Whitespace)
  IN CHOOSE n \in 1..Len(str) :
       /\ \A i \in 1..n : same(i)
       /\ n = Len(str) \/ ~same(n + 1)

\* The word tokenizer on texts of letters and whitespace: the runs of
\* letters and the runs of whitespace, in order.
RECURSIVE tokenizeWords(_)
tokenizeWords(str) ==
  IF str = <<>> THEN <<>>
  ELSE <<SubSeq(str, 1, runLength(str))>>
       \o tokenizeWords(SubSeq(str, runLength(str) + 1, Len(str)))

\* diffWords ignores whitespace: two tokens are equal when they are the
\* same text or are both whitespace.
ignoreWhitespace(tokens) ==
  [i \in 1..Len(tokens) |->
     IF tokens[i][1] \in Whitespace THEN <<" ">> ELSE tokens[i]]

\* diffWords: a chunk's value is the concatenation of its tokens; the
\* tokens of an unchanged chunk are those of the new text.
diffWords(oldStr, newStr) ==
  LET old == tokenizeWords(oldStr)
      new == tokenizeWords(newStr)
      parts == buildValues(diffComponents(ignoreWhitespace(old),
                                          ignoreWhitespace(new)), new, old, 0, 0)
  IN [i \in 1..Len(parts) |->
        [value |-> Flatten(parts[i].tokens), added |-> parts[i].added,
         removed |-> parts[i].removed]]

\* ------------------------------------------------- next-edit-prediction/diff

\* The bounds that encompass all diff changes; found = FALSE is null.
NoBound == [found |-> FALSE, startIdx |-> -1, endIdx |-> -1, oldStart |-> 0, newStart |-> 0]

isChanged(d) == d.added \/ d.removed

\* The summed value length of the first n chunks, the added ones left out
\* (an offset into the old text) or the removed ones (into the new text).
RECURSIVE lengthBefore(_, _, _)
lengthBefore(diffs, n, skipAdded) ==
  IF n = 0 THEN 0
  ELSE lengthBefore(diffs, n - 1, skipAdded)
       + (IF (skipAdded /\ ~diffs[n].added) \/ (~skipAdded /\ ~diffs[n].removed)
            THEN Len(diffs[n].value) ELSE 0)

\* Chunk indices are those of the JavaScript array (0-based).
findLargestDiffBound_pastRegion(diffs) ==
  IF Len(diffs) = 0 THEN NoBound
  ELSE LET changed == {i \in 1..Len(diffs) : isChanged(diffs[i])}
       IN IF changed = {} THEN NoBound
          ELSE LET first == CHOOSE i \in changed : \A j \in changed : i <= j
                   last == CHOOSE i \in changed : \A j \in changed : j <= i
               IN [found |-> TRUE,
                   startIdx |-> first - 1,
                   endIdx |-> last - 1,
                   oldStart |-> lengthBefore(diffs, first, TRUE),
                   newStart |-> lengthBefore(diffs, first, FALSE)]

findLargestDiffBound_firstRegion(diffs) ==
  IF Len(diffs) = 0 THEN NoBound
  ELSE LET changed == {i \in 1..Len(diffs) : isChanged(diffs[i])}
       IN IF changed = {} THEN NoBound
          ELSE LET first == CHOOSE i \in changed : \A j \in changed : i <= j
                   run == {i \in changed : \A k \in first..i : k \in changed}
                   last == CHOOSE i \in run : \A j \in run : j <= i
               IN [found |-> TRUE,
                   startIdx |-> first - 1,
                   endIdx |-> last - 1,
                   oldStart |-> lengthBefore(diffs, first - 1, TRUE),
                   newStart |-> lengthBefore(diffs, first - 1, FALSE)]

findLargestDiffBound(diffs) ==
  IF Len(diffs) = 0 THEN NoBound
  ELSE LET changed == {i \in 1..Len(diffs) : isChanged(diffs[i])}
       IN IF changed = {} THEN NoBound
          ELSE LET first == CHOOSE i \in changed : \A j \in changed : i <= j
                   last == CHOOSE i \in changed : \A j \in changed : j <= i
               IN [found |-> TRUE,
                   startIdx |-> first - 1,
                   endIdx |-> last - 1,
                   oldStart |-> lengthBefore(diffs, first - 1, TRUE),
                   newStart |-> lengthBefore(diffs, first - 1, FALSE)]

RECURSIVE chunkText(_, _, _, _)
\* The concatenated values of the added (or of the removed) chunks with
\* array index in [from, to].
chunkText(diffs, from, to, wantAdded) ==
  IF from > to THEN <<>>
  ELSE (IF diffs[from + 1].added
          THEN (IF wantAdded THEN diffs[from + 1].value ELSE <<>>)
          ELSE IF diffs[from + 1].removed
            THEN (IF wantAdded THEN <<>> ELSE diffs[from + 1].value)
            ELSE <<>>)
       \o chunkText(diffs, from + 1, to, wantAdded)

\* String.prototype.trim

RECURSIVE trimStart(_)
trimStart(str) ==
  IF str # <<>> /\ Head(str) \in Whitespace THEN trimStart(Tail(str)) ELSE str

RECURSIVE trimEnd(_)
trimEnd(str) ==
  IF str # <<>> /\ str[Len(str)] \in Whitespace
    THEN trimEnd(SubSeq(str, 1, Len(str) - 1)) ELSE str

trim(str) == trimEnd(trimStart(str))

\* shouldUseChars without the test for an empty trimmed chunk.
shouldUseChars_anyTrimmed(wordDiffs) ==
  LET wordChanges == {i \in 1..Len(wordDiffs) : isChanged(wordDiffs[i])}
  IN /\ Cardinality(wordChanges) <= 2
     /\ \A i \in wordChanges :
          LET trimmed == trim(wordDiffs[i].value)
          IN ~includes(trimmed, " ") /\ ~includes(trimmed, "\n")

\* The character diff replaces the word diff when the word diff has at most
\* two changed chunks and every one of them, trimmed, is not empty and has
\* neither a space nor a newline inside.
shouldUseChars(wordDiffs) ==
  LET wordChanges == {i \in 1..Len(wordDiffs) : isChanged(wordDiffs[i])}
  IN /\ Cardinality(wordChanges) <= 2
     /\ \A i \in wordChanges :
          LET trimmed == trim(wordDiffs[i].value)
          IN Len(trimmed) > 0 /\ ~includes(trimmed, " ") /\ ~includes(trimmed, "\n")

\* The chunk sequence extractDiffOperation hands to findLargestDiffBound.
computeDiffs(oldTextClean, newTextClean) ==
  LET wordDiffs == diffWords(oldTextClean, newTextClean)
  IN IF shouldUseChars(wordDiffs)
       THEN diffChars(oldTextClean, newTextClean)
       ELSE wordDiffs

NoneResult == [operation |-> [type |-> "none"], cursorPosition |-> null]

\* No text change: a cursor move if the marker offsets differ, else none.
cursorOrNone_old(oldCursorPosition, newCursorPosition) ==
  IF oldCursorPosition # newCursorPosition
    THEN [operation |-> [type |-> "cursor", position |-> oldCursorPosition],
          cursorPosition |-> newCursorPosition]
    ELSE NoneResult

cursorOrNone(oldCursorPosition, newCursorPosition) ==
  IF oldCursorPosition # newCursorPosition
    THEN [operation |-> [type |-> "cursor", position |-> newCursorPosition],
          cursorPosition |-> newCursorPosition]
    ELSE NoneResult

\* The operation type, from the added and removed text of the bound region.
operationOf_swapped(bound, addedText, removedText) ==
  IF addedText # <<>> /\ removedText = <<>>
    THEN [type |-> "add", position |-> bound.oldStart, text |-> addedText]
  ELSE IF addedText = <<>> /\ removedText # <<>>
    THEN [type |-> "remove", position |-> bound.oldStart, count |-> Len(removedText)]
  ELSE [type |-> "modify", position |-> bound.oldStart,
        insertText |-> addedText, removeCount |-> Len(addedText)]

operationOf(bound, addedText, removedText) ==
  IF addedText # <<>> /\ removedText = <<>>
    THEN [type |-> "add", position |-> bound.oldStart, text |-> addedText]
  ELSE IF addedText = <<>> /\ removedText # <<>>
    THEN [type |-> "remove", position |-> bound.oldStart, count |-> Len(removedText)]
  ELSE [type |-> "modify", position |-> bound.oldStart,
        insertText |-> addedText, removeCount |-> Len(removedText)]

\* extractDiffOperation once the new text is known to carry the marker.
markedResult(suggestion, cursorMarker) ==
  LET oldCursorPosition == indexOf(suggestion.oldText, cursorMarker)
      newCursorPosition == indexOf(suggestion.newText, cursorMarker)
      oldTextClean == replace(suggestion.oldText, cursorMarker)
      newTextClean == replace(suggestion.newText, cursorMarker)
      diffs == computeDiffs(oldTextClean, newTextClean)
      bound == findLargestDiffBound(diffs)
  IN IF ~bound.found
       THEN IF oldTextClean = newTextClean
              THEN cursorOrNone(oldCursorPosition, newCursorPosition)
              ELSE NoneResult
       ELSE
         LET addedText == chunkText(diffs, bound.startIdx, bound.endIdx, TRUE)
             removedText == chunkText(diffs, bound.startIdx, bound.endIdx, FALSE)
             hasChanges == \E i \in bound.startIdx..bound.endIdx :
                             isChanged(diffs[i + 1])
         IN IF ~hasChanges
              THEN cursorOrNone(oldCursorPosition, newCursorPosition)
              ELSE [operation |-> operationOf(bound, addedText, removedText),
                    cursorPosition |-> newCursorPosition]

extractDiffOperation_unguarded(suggestion, cursorMarker) ==
  markedResult(suggestion, cursorMarker)

extractDiffOperation(suggestion, cursorMarker) ==
  IF ~includes(suggestion.newText, cursorMarker)
    THEN NoneResult
    ELSE markedResult(suggestion, cursorMarker)

\* ------------------------------------------------ next-edit-predication/diff

\* The text-form applier.
applyDiffOperation_removeToEnd(text, operation) ==
  CASE operation.type = "add" ->
         slice(text, 0, operation.position) \o operation.text
           \o sliceFrom(text, operation.position)
    [] operation.type = "remove" ->
         slice(text, 0, operation.position)
    [] operation.type = "modify" ->
         slice(text, 0, operation.position) \o operation.insertText
           \o sliceFrom(text, operation.position + operation.removeCount)
    [] operation.type = "cursor" -> text
    [] operation.type = "none" -> text

applyDiffOperation(text, operation) ==
  CASE operation.type = "add" ->
         slice(text, 0, operation.position) \o operation.text
           \o sliceFrom(text, operation.position)
    [] operation.type = "remove" ->
         slice(text, 0, operation.position)
           \o sliceFrom(text, operation.position + operation.count)
    [] operation.type = "modify" ->
         slice(text, 0, operation.position) \o operation.insertText
           \o sliceFrom(text, operation.position + operation.removeCount)
    [] operation.type = "cursor" -> text
    [] operation.type = "none" -> text

\* ------------------------------------------------------------------ state

VARIABLES
  \* the diff pipeline
  diffText,      \* the DiffText being classified: [oldText, newText]
  diffChunks,    \* the diff of its marker-stripped texts (computeDiffs)
  diffResult,    \* the DiffResult extractDiffOperation returned for it
  appliedText,   \* applyDiffOperation(marker-stripped old text, operation)
  diffPc,        \* "input", "classified" or "applied"; "diffed" when the
                 \* chunks alone are computed; when a pair is
                 \* classified again: "input", "first", "other",
                 \* "otherDone", "again" or "againDone"
  classified,    \* the first classification of a run that classifies a
                 \* pair again: the pair, its result, and whether another
                 \* pair has been classified since
  \* the editor with the next-edit-prediction extension and the oxen backend
  doc,           \* the document, a Text object: [id, text]
  sel,           \* the main selection, a cursor: its offset
  docCount,      \* the number of Text objects created so far
  held,          \* NextEditPredictionState: the suggestion, and the document
                 \* of the effect that set it
  timer,         \* the debounced fetchFn: its pending call, if any
  requests,      \* the invocations of the oxen predictor, oldest first: the
                 \* state each was called with, where it stands (pc), whether
                 \* its controller was aborted, how it ended and why (cause),
                 \* what its caller got (returned), whether its
                 \* error was logged, whether the document had changed when
                 \* its effect was dispatched (stale), and the burst of
                 \* debounced calls it stands for
  currentController, \* oxen's currentController: 0 (null) or the index of
                 \* the request it was created for
  errorLog,      \* console.error: the requests reported as failed
  burst,         \* calls of the debounced fetchFn since the timer last fired
  bursts,        \* number of bursts started
  editState,     \* the editor state the last fetched-for edit produced
  \* the capacity-based cached predictor
  cache,         \* its Map, in insertion order: entries [key, result], with
                 \* the state the entry was stored for and the number of
                 \* the store that inserted the key (at)
  maxSize,       \* its capacity
  calls,         \* the calls of the cached predictor, oldest first: the
                 \* state, its key, whether an entry for the state was
                 \* resident and what it stored, where the call stands (pc),
                 \* its outcome and result, how often it invoked the
                 \* delegate, and the number of its store (at; 0 for none)
  delegateCalls, \* invocations of the delegate predictor so far
  \* the editor with the inline-suggestion extension
  inlineDoc,     \* the document, a Text object: [id, text]
  inlineSuggestion, \* InlineSuggestionState: the suggestion, if any
  suggestionCache, \* the plugin's SuggestionCache: for each key its entry
                 \* [result, timestamp], or NoEntry
  cacheTimeout,  \* options.cacheTimeout
  now,           \* Date.now()
  fetching,      \* the calls of fetchFn under way: the cache key and the
                 \* document each was made for
  abortController, \* the plugin's abortController: "null", "live" or
                 \* "aborted"
  destroyed,     \* whether the plugin has been destroyed
  got,           \* the last lookup of the SuggestionCache: the document it
                 \* was made for, its key, whether it found an entry and
                 \* how old the entry was, and the value it returned
  \* the two forms of the applier
  opInput,       \* the text (the document), the operation, the desired
                 \* cursor position and the caller's selection
  opText,        \* applyDiffOperation(text, operation)
  opSpec,        \* insertDiffText({state, operation, cursorPosition})
  opState,       \* the editor state after a transaction of that spec
  opPc,          \* "input", "text" or "document"
  \* the applier for a suggestion (the older insertDiffText)
  insInput,      \* the document, and the suggestion: newText, ghostText, to
  insSpec,       \* insertDiffText(state, suggestion, cursorMarker)
  insState,      \* the editor state after a transaction of that spec
  insPc,         \* "input" or "document"
  \* cleanPrediction
  prediction,    \* the text the model answered
  cleanedOnce,   \* cleanPrediction(prediction)
  cleanedTwice,  \* cleanPrediction(cleanPrediction(prediction).cleaned)
  cleanPc,       \* "input", "once" or "twice"
  \* the commands of the inline-suggestion extension
  cmdInput,      \* the editor state a command is run on: the document
                 \* text, the main caret and the InlineSuggestionState
  cmdState,      \* the editor state after the command
  cmdResult,     \* the command run, what it returned, and whether it
                 \* dispatched a transaction
  \* the prompt-history extension
  histDoc,       \* the document text
  history,       \* historyState: prompts, navigationIndex, originalText
  histLast,      \* the last command or transaction of the user: its name,
                 \* what the command returned, and the navigationIndex
                 \* before it
  \* the AI-edit extension
  aiDoc,         \* the document text
  inputState,    \* the field inputState: show, lineFrom, lineTo
  completionState, \* the field completionState: null (some = FALSE) or from,
                 \* to, oldCode, newCode, with the request it came from
                 \* (by) and the document before it was applied (before)
  loadingState,  \* the field loadingState
  aiRequests,    \* the calls of the complete function, oldest first: what
                 \* handleSubmit captured (fromPos, toPos, oldCode), the
                 \* widget it ran on, whether its signal is aborted, where
                 \* it stands (pc), how it ended, whether it was aborted
                 \* while in flight (cancelled), whether its range was the
                 \* extent of the input's lines when it was applied (exact),
                 \* and what became of its completion (decided): "accepted", or
                 \* rejected with the document "restored", with a document
                 \* that "differs" from the one before, or on a "stale"
                 \* range that no longer held the completion
  widgets,       \* the number of InputWidgets rendered so far; the input
                 \* that is shown is the last of them
  controllers    \* per widget: the request whose controller is in
                 \* this.abortController, 0 for null, -1 once cleanup has
                 \* removed the widget's DOM

diffVars == <<diffText, diffChunks, diffResult, appliedText, diffPc,
              classified>>

editorVars == <<doc, sel, docCount, held, timer, requests, currentController,
                errorLog, burst, bursts, editState>>

cacheVars == <<cache, maxSize, calls, delegateCalls>>

inlineVars == <<inlineDoc, inlineSuggestion, suggestionCache, cacheTimeout,
                now, fetching, abortController, destroyed, got>>

opVars == <<opInput, opText, opSpec, opState, opPc>>

insVars == <<insInput, insSpec, insState, insPc>>

cleanVars == <<prediction, cleanedOnce, cleanedTwice, cleanPc>>

cmdVars == <<cmdInput, cmdState, cmdResult>>

histVars == <<histDoc, history, histLast>>

aiVars == <<aiDoc, inputState, completionState, loadingState, aiRequests, widgets, controllers>>

vars == <<diffVars, editorVars, cacheVars, inlineVars, opVars, insVars,
          cleanVars,
          cmdVars,
          histVars,
          aiVars>>

\* What the steps of one component leave alone.
exceptDiff ==
  <<editorVars, cacheVars, inlineVars, opVars, insVars, cleanVars,
   cmdVars,
   histVars,
   aiVars>>
exceptEditor ==
  <<diffVars, cacheVars, inlineVars, opVars, insVars, cleanVars,
   cmdVars,
   histVars,
   aiVars>>
exceptCache ==
  <<diffVars, editorVars, inlineVars, opVars, insVars, cleanVars,
   cmdVars,
   histVars,
   aiVars>>
exceptInline ==
  <<diffVars, editorVars, cacheVars, opVars, insVars, cleanVars,
   cmdVars,
   histVars,
   aiVars>>
exceptOp ==
  <<diffVars, editorVars, cacheVars, inlineVars, insVars, cleanVars,
   cmdVars,
   histVars,
   aiVars>>
exceptClean ==
  <<diffVars, editorVars, cacheVars, inlineVars, opVars, insVars,
   cmdVars,
   histVars,
   aiVars>>
exceptIns ==
  <<diffVars, editorVars, cacheVars, inlineVars, opVars, cleanVars,
   cmdVars,
   histVars,
   aiVars>>
exceptCmd ==
  <<diffVars, editorVars, cacheVars, inlineVars, opVars, insVars, cleanVars,
   histVars,
   aiVars>>
exceptHist ==
  <<diffVars, editorVars, cacheVars, inlineVars, opVars, insVars, cleanVars, cmdVars,
   aiVars>>
exceptAi ==
  <<diffVars, editorVars, cacheVars, inlineVars, opVars, insVars, cleanVars, cmdVars, histVars>>

\* ------------------------------------------------------ the diff pipeline

CleanTexts == UNION {[1..n -> Alphabet] : n \in 0..MaxLen}

\* A text with the cursor marker at offset i.
withMarker(text, i) ==
  SubSeq(text, 1, i) \o <<CURSOR_MARKER>> \o SubSeq(text, i + 1, Len(text))

\* The texts of a suggestion: with the marker once, or without it.
Texts ==
  CleanTexts \cup UNION {{withMarker(t, i) : i \in 0..Len(t)} : t \in CleanTexts}

DiffTexts == [oldText : Texts, newText : Texts]

NoClassification ==
  [text |-> [oldText |-> <<>>, newText |-> <<>>], result |-> NoneResult,
   others |-> FALSE]

DiffInit ==
  /\ diffText \in DiffTexts
  /\ diffChunks = <<>>
  /\ diffResult = NoneResult
  /\ appliedText = <<>>
  /\ diffPc = "input"
  /\ classified = NoClassification

\* extractDiffOperation(suggestion, CURSOR_MARKER)
Classify ==
  /\ diffPc = "input"
  /\ diffResult' = extractDiffOperation(diffText, CURSOR_MARKER)
  /\ diffChunks' = computeDiffs(replace(diffText.oldText, CURSOR_MARKER),
                                replace(diffText.newText, CURSOR_MARKER))
  /\ diffPc' = "classified"
  /\ UNCHANGED <<diffText, appliedText, classified, exceptDiff>>

\* applyDiffOperation(oldTextClean, operation)
Apply ==
  /\ diffPc = "classified"
  /\ appliedText' = applyDiffOperation(replace(diffText.oldText, CURSOR_MARKER),
                                       diffResult.operation)
  /\ diffPc' = "applied"
  /\ UNCHANGED <<diffText, diffChunks, diffResult, classified, exceptDiff>>

\* The next prediction for the same old text arrives.
NextSuggestion ==
  /\ diffPc = "applied"
  /\ \E newText \in Texts : diffText' = [diffText EXCEPT !.newText = newText]
  /\ diffChunks' = <<>>
  /\ diffResult' = NoneResult
  /\ appliedText' = <<>>
  /\ diffPc' = "input"
  /\ UNCHANGED <<classified, exceptDiff>>

\* --------------------------------------- classifying the same pair again

\* The pairs classified between the two classifications of a pair.
OtherPairs ==
  { [oldText |-> <<CURSOR_MARKER>>, newText |-> <<"a", CURSOR_MARKER>>],
    [oldText |-> <<"a", "b", CURSOR_MARKER>>, newText |-> <<"b", CURSOR_MARKER>>] }

\* A call of extractDiffOperation(suggestion, CURSOR_MARKER).
classify_withMemory(suggestion) ==
  IF classified.others
    THEN diffResult
    ELSE extractDiffOperation(suggestion, CURSOR_MARKER)

classify(suggestion) == extractDiffOperation(suggestion, CURSOR_MARKER)

\* extractDiffOperation(suggestion, CURSOR_MARKER) for the pair the caller
\* hands over: the first pair, another pair, or the first pair again.
ClassifyPair ==
  /\ diffPc \in {"input", "other", "again"}
  /\ diffResult' = classify(diffText)
  /\ classified' =
       CASE diffPc = "input" ->
              [text |-> diffText, result |-> diffResult', others |-> FALSE]
         [] diffPc = "other" -> [classified EXCEPT !.others = TRUE]
         [] diffPc = "again" -> classified
  /\ diffPc' = CASE diffPc = "input" -> "first"
                 [] diffPc = "other" -> "otherDone"
                 [] diffPc = "again" -> "againDone"
  /\ UNCHANGED <<diffText, diffChunks, appliedText, exceptDiff>>

\* The caller goes on with another pair.
OtherPair ==
  /\ diffPc \in {"first", "otherDone"}
  /\ \E other \in OtherPairs \ {classified.text} : diffText' = other
  /\ diffPc' = "other"
  /\ UNCHANGED <<diffChunks, diffResult, appliedText, classified, exceptDiff>>

\* The caller comes back to the pair of the first classification.
SamePair ==
  /\ diffPc \in {"first", "otherDone"}
  /\ diffText' = classified.text
  /\ diffPc' = "again"
  /\ UNCHANGED <<diffChunks, diffResult, appliedText, classified, exceptDiff>>

RepeatNext == ClassifyPair \/ OtherPair \/ SamePair

\* ------------------------------------- the diff computer on texts of words

Letters == {"a", "b"}
Separators == {" ", "\n"}

\* The texts of exactly k words over `letters`, one separator between two
\* words.
RECURSIVE WordTexts(_, _)
WordTexts(k, letters) ==
  IF k = 1 THEN {<<w>> : w \in letters}
  ELSE {t \o <<sep, w>> : t \in WordTexts(k - 1, letters), sep \in Separators,
                           w \in letters}

\* Texts of up to MaxWords words, with or without a separator in front;
\* the empty text; a separator alone.
WordedTexts(letters) ==
  {<<>>} \cup {<<sep>> : sep \in Separators}
    \cup UNION {WordTexts(k, letters) \cup
                  {<<sep>> \o t : sep \in Separators, t \in WordTexts(k, letters)} :
                k \in 1..MaxWords}

\* The document has words of one letter, the prediction of two.
WordedPairs == [oldText : WordedTexts({"a"}), newText : WordedTexts(Letters)]

WordedInit ==
  /\ diffText \in WordedPairs
  /\ diffChunks = <<>>
  /\ diffResult = NoneResult
  /\ appliedText = <<>>
  /\ diffPc = "input"
  /\ classified = NoClassification

\* extractDiffOperation up to the call of findLargestDiffBound: the markers
\* are removed and the chunks computed.
ComputeDiffs ==
  /\ diffPc = "input"
  /\ diffChunks' = computeDiffs(replace(diffText.oldText, CURSOR_MARKER),
                                replace(diffText.newText, CURSOR_MARKER))
  /\ diffPc' = "diffed"
  /\ UNCHANGED <<diffText, diffResult, appliedText, classified, exceptDiff>>

WordedNext == ComputeDiffs


\* ------------------------------------- the editor: state and transactions

\* The editor vars of a run of the diff pipeline alone, and the diff vars of
\* a run of the editor alone.
NoSuggestion == [oldText |-> <<>>, newText |-> <<>>, from |-> -1, to |-> -1]
NoCall == [pending |-> FALSE, state |-> [doc |-> [id |-> 0, text |-> <<>>], sel |-> 0]]

EditorInit ==
  /\ doc = [id |-> 0, text |-> <<>>]
  /\ sel = 0
  /\ docCount = 1
  /\ held = [suggestion |-> NoSuggestion, doc |-> -1]
  /\ timer = NoCall
  /\ requests = <<>>
  /\ currentController = 0
  /\ errorLog = <<>>
  /\ burst = 0
  /\ bursts = 0
  /\ editState = [doc |-> [id |-> 0, text |-> <<>>], sel |-> 0]

DiffIdle ==
  /\ diffText = [oldText |-> <<>>, newText |-> <<>>]
  /\ diffChunks = <<>>
  /\ diffResult = NoneResult
  /\ appliedText = <<>>
  /\ diffPc = "input"
  /\ classified = NoClassification

NoEffect == [present |-> FALSE, suggestion |-> NoSuggestion, doc |-> -1]

\* NextEditPredictionState.update: tr.effect is the NextEditPredictionEffect
\* of the transaction, tr.newDoc the identity of tr.state.doc.
NextEditPredictionState_update_anyDoc(previousValue, tr) ==
  IF tr.effect.present
    THEN [suggestion |-> tr.effect.suggestion, doc |-> tr.effect.doc]
  ELSE IF ~tr.docChanged /\ ~tr.selection
    THEN previousValue
  ELSE [suggestion |-> NoSuggestion, doc |-> -1]

\* The update with a test of tr.docChanged alone in its second branch.
NextEditPredictionState_update_keepsOnSelection(previousValue, tr) ==
  IF tr.effect.present /\ tr.newDoc = tr.effect.doc
    THEN [suggestion |-> tr.effect.suggestion, doc |-> tr.effect.doc]
  ELSE IF ~tr.docChanged
    THEN previousValue
  ELSE [suggestion |-> NoSuggestion, doc |-> -1]

NextEditPredictionState_update(previousValue, tr) ==
  IF tr.effect.present /\ tr.newDoc = tr.effect.doc
    THEN [suggestion |-> tr.effect.suggestion, doc |-> tr.effect.doc]
  ELSE IF ~tr.docChanged /\ ~tr.selection
    THEN previousValue
  ELSE [suggestion |-> NoSuggestion, doc |-> -1]

\* fetchSuggestion.update up to the call of fetchFn: only a document change
\* that is not an accepted completion fetches.
shouldFetch_anyUpdate(update) == update.userEvent # "input.complete"

shouldFetch_anyDocChange(update) == update.docChanged

shouldFetch(update) ==
  update.docChanged /\ update.userEvent # "input.complete"

\* debouncePromise(options.fetchFn, delay), called with an editor state: the
\* pending call, if any, is dropped and the timer restarted for this one.
debouncePromise_call(state) == [pending |-> TRUE, state |-> state]

\* The plugin's part of a transaction that changes document or selection.
PluginUpdate(update) ==
  IF shouldFetch(update)
    THEN /\ timer' = debouncePromise_call(update.state)
         /\ burst' = burst + 1
         /\ bursts' = IF timer.pending THEN bursts ELSE bursts + 1
         /\ editState' = IF update.docChanged THEN update.state ELSE editState
    ELSE UNCHANGED <<timer, burst, bursts, editState>>

\* view.dispatch of a transaction that replaces [from, to) by insert (if
\* changes) and puts the cursor at selection (if selection >= 0).
Dispatch(changes, from, to, insert, selection, userEvent, effect) ==
  LET newText == IF changes
                   THEN slice(doc.text, 0, from) \o insert \o sliceFrom(doc.text, to)
                   ELSE doc.text
      newDoc == IF changes THEN [id |-> docCount, text |-> newText] ELSE doc
      newSel == IF selection >= 0 THEN selection ELSE Min(sel, Len(newText))
      tr == [docChanged |-> changes, selection |-> selection >= 0,
             effect |-> effect, newDoc |-> newDoc.id, userEvent |-> userEvent]
  IN /\ changes => docCount < MaxDocs /\ 0 <= from /\ from <= to /\ to <= Len(doc.text)
     /\ selection <= Len(newText)
     /\ doc' = newDoc
     /\ sel' = newSel
     /\ docCount' = IF changes THEN docCount + 1 ELSE docCount
     /\ held' = NextEditPredictionState_update(held, tr)
     /\ PluginUpdate([docChanged |-> changes, userEvent |-> userEvent,
                      state |-> [doc |-> newDoc, sel |-> newSel]])

\* The characters the user types.
Typed == {"a"}

\* The user types a character at the cursor.
UserTypes ==
  /\ Len(doc.text) < MaxDocLen
  /\ \E c \in Typed :
       Dispatch(TRUE, sel, sel, <<c>>, sel + 1, "input.type", NoEffect)
  /\ UNCHANGED <<requests, currentController, errorLog, exceptEditor>>

\* The user deletes the character before the cursor.
UserDeletes ==
  /\ sel > 0
  /\ Dispatch(TRUE, sel - 1, sel, <<>>, sel - 1, "delete.backward", NoEffect)
  /\ UNCHANGED <<requests, currentController, errorLog, exceptEditor>>

\* The user moves the cursor.
UserMovesCursor ==
  /\ \E p \in 0..Len(doc.text) :
       /\ p # sel
       /\ Dispatch(FALSE, 0, 0, <<>>, p, "select", NoEffect)
  /\ UNCHANGED <<requests, currentController, errorLog, exceptEditor>>

\* ------------------------------------------- the oxen predictor (backend)

\* currentController.abort() of the previous request, if there is one.
abortCurrent_never(reqs, controller) == reqs

abortCurrent(reqs, controller) ==
  IF controller # 0 THEN [reqs EXCEPT ![controller].aborted = TRUE] ELSE reqs

\* The texts the backend's model answers (after cleanPrediction).
CleanedPredictions ==
  { <<CURSOR_MARKER>>, <<"a", CURSOR_MARKER>>, <<CURSOR_MARKER, "a">>,
    <<"a", "b", CURSOR_MARKER>>, <<"b", "a", CURSOR_MARKER>>, <<"a", "b">> }

\* The debounce timer fires: the oxen predictor is invoked with the state of
\* the pending call, aborts the controller of its previous request and
\* starts fetchPrediction with a controller of its own.
TimerFires ==
  /\ timer.pending
  /\ Len(requests) < MaxRequests
  /\ requests' = Append(abortCurrent(requests, currentController),
                        [state |-> timer.state, pc |-> "fetch", aborted |-> FALSE,
                         end |-> "pending", cause |-> "", returned |-> "",
                         logged |-> FALSE, stale |-> FALSE,
                         burst |-> burst, finalEdit |-> editState])
  /\ currentController' = Len(requests) + 1
  /\ timer' = NoCall
  /\ burst' = 0
  /\ UNCHANGED <<doc, sel, docCount, held, errorLog, bursts, editState, exceptEditor>>

\* The suggestion oxen returns from its catch block.
emptySuggestion_marked(state) ==
  [oldText |-> state.doc.text, newText |-> <<CURSOR_MARKER>> \o state.doc.text,
   from |-> state.sel, to |-> state.sel]

emptySuggestion(state) ==
  [oldText |-> state.doc.text, newText |-> state.doc.text,
   from |-> state.sel, to |-> state.sel]

\* The suggestion oxen returns for a prediction.
diffSuggestion(state, cleaned) ==
  [oldText |-> slice(state.doc.text, 0, state.sel) \o <<CURSOR_MARKER>>
                 \o sliceFrom(state.doc.text, state.sel),
   newText |-> cleaned, from |-> state.sel, to |-> state.sel]

\* The catch block of oxen: an Error whose name is not AbortError is logged.
shouldLog(error) == error.isError /\ error.name # "AbortError"

\* What fetchPrediction throws.  fetch rejects with a DOMException named
\* AbortError when the signal is aborted and with a TypeError when the
\* network fails; a response that is not ok throws an Error; whatever is
\* thrown while the body is read and checked, an AbortError included, is
\* caught and thrown again as a new Error.
NoError == [isError |-> FALSE, name |-> ""]
AbortError == [isError |-> TRUE, name |-> "AbortError"]
NetworkError == [isError |-> TRUE, name |-> "TypeError"]
HttpError == [isError |-> TRUE, name |-> "Error"]
InvalidResponse == [isError |-> TRUE, name |-> "Error"]
parseError(error) == [isError |-> TRUE, name |-> "Error"]

\* Request i ends: oxen resolves with `result`, and the plugin, resumed with
\* it, dispatches the effect for the document it captured.
Resolve(i, result, end, error, cause) ==
  /\ requests' = [requests EXCEPT ![i].pc = "done", ![i].end = end,
                                  ![i].cause = cause,
                                  ![i].returned =
                                    IF result.newText = requests[i].state.doc.text
                                         /\ result.oldText = result.newText
                                      THEN "empty" ELSE "prediction",
                                  ![i].logged = (end # "success" /\ shouldLog(error)),
                                  ![i].stale = (requests[i].state.doc.id # doc.id)]
  /\ errorLog' = IF end # "success" /\ shouldLog(error)
                   THEN Append(errorLog, i) ELSE errorLog
  /\ Dispatch(FALSE, 0, 0, <<>>, -1, "",
              [present |-> TRUE, suggestion |-> result,
               doc |-> requests[i].state.doc.id])
  /\ UNCHANGED <<currentController, exceptEditor>>

\* fetch() of request i settles with a rejection, or with a response that
\* is not ok.
FetchFails ==
  \E i \in 1..Len(requests) :
    /\ requests[i].pc = "fetch"
    /\ IF requests[i].aborted
         THEN Resolve(i, emptySuggestion(requests[i].state), "cancelled",
                      AbortError, "abort")
         ELSE \/ Resolve(i, emptySuggestion(requests[i].state), "failed",
                         NetworkError, "network")
              \/ Resolve(i, emptySuggestion(requests[i].state), "failed",
                         HttpError, "http")

\* fetch() of request i settles with an ok response; the body is read next.
FetchResponds ==
  \E i \in 1..Len(requests) :
    /\ requests[i].pc = "fetch"
    /\ ~requests[i].aborted
    /\ requests' = [requests EXCEPT ![i].pc = "body"]
    /\ UNCHANGED <<doc, sel, docCount, held, timer, currentController, errorLog,
                   burst, bursts, editState, exceptEditor>>

\* response.json() of request i settles with a rejection or with a body that
\* lacks the expected fields.
BodyFails ==
  \E i \in 1..Len(requests) :
    /\ requests[i].pc = "body"
    /\ IF requests[i].aborted
         THEN Resolve(i, emptySuggestion(requests[i].state), "cancelled",
                      parseError(AbortError), "abort")
         ELSE Resolve(i, emptySuggestion(requests[i].state), "failed",
                      parseError(InvalidResponse), "malformed")

\* response.json() of request i settles with a prediction.
BodyArrives ==
  \E i \in 1..Len(requests) :
    /\ requests[i].pc = "body"
    /\ ~requests[i].aborted
    /\ \E cleaned \in CleanedPredictions :
         Resolve(i, diffSuggestion(requests[i].state, cleaned), "success",
                 NoError, "")

\* ------------------------------------------------ accepting and rejecting

NoChanges == [present |-> FALSE, from |-> 0, to |-> 0, insert |-> <<>>]

\* finalCursorPosition of an add, remove or modify operation.
finalCursorPosition_atPosition(op) == op.position
finalCursorPosition(op) ==
  CASE op.type = "add" -> op.position + Len(op.text)
    [] op.type = "remove" -> op.position
    [] op.type = "modify" -> op.position + Len(op.insertText)

\* The selection of a none operation.
noneSelection_supplied(opts) ==
  IF opts.cursorPosition # null THEN opts.cursorPosition ELSE 0
noneSelection(opts) ==
  IF opts.cursorPosition # null THEN opts.cursorPosition ELSE opts.state.sel

\* The document+selection form of the applier (insertDiffText with a
\* DiffOperation): a transaction spec.
insertDiffText(opts) ==
  LET op == opts.operation
  IN CASE op.type = "add" ->
            [changes |-> [present |-> TRUE, from |-> op.position,
                          to |-> op.position, insert |-> op.text],
             selection |-> finalCursorPosition(op),
             userEvent |-> "input.complete"]
       [] op.type = "remove" ->
            [changes |-> [present |-> TRUE, from |-> op.position,
                          to |-> op.position + op.count, insert |-> <<>>],
             selection |-> finalCursorPosition(op),
             userEvent |-> "input.complete"]
       [] op.type = "modify" ->
            [changes |-> [present |-> TRUE, from |-> op.position,
                          to |-> op.position + op.removeCount,
                          insert |-> op.insertText],
             selection |-> finalCursorPosition(op),
             userEvent |-> "input.complete"]
       [] op.type = "cursor" ->
            [changes |-> NoChanges, selection |-> op.position, userEvent |-> "select"]
       [] op.type = "none" ->
            [changes |-> NoChanges,
             selection |-> noneSelection(opts),
             userEvent |-> ""]

\* acceptNepSuggestion(view): what it returns, whether it dispatches, and
\* the transaction spec it dispatches.
NothingDispatched == [changes |-> NoChanges, selection |-> -1, userEvent |-> ""]

acceptNepSuggestion(state, suggestion) ==
  IF suggestion = NoSuggestion
    THEN [returned |-> FALSE, dispatched |-> FALSE, spec |-> NothingDispatched]
    ELSE CHOOSE accepted \in
           {[returned |-> TRUE, dispatched |-> TRUE,
             spec |-> insertDiffText([state |-> state,
                                      operation |-> result.operation,
                                      cursorPosition |-> result.cursorPosition])] :
              result \in {extractDiffOperation(suggestion, CURSOR_MARKER)}} : TRUE

\* view.dispatch of the accept command's transaction, if it has one.
AcceptDispatches(r) ==
  /\ IF r.dispatched
       THEN Dispatch(r.spec.changes.present, r.spec.changes.from,
                     r.spec.changes.to, r.spec.changes.insert,
                     r.spec.selection, r.spec.userEvent, NoEffect)
       ELSE UNCHANGED <<doc, sel, docCount, held, timer, burst, bursts, editState>>
  /\ UNCHANGED <<requests, currentController, errorLog, exceptEditor>>

\* The accept command is run; without a suggestion nothing is dispatched.
AcceptNepSuggestion ==
  \E r \in {acceptNepSuggestion([doc |-> doc, sel |-> sel], held.suggestion)} :
    AcceptDispatches(r)

\* rejectNepSuggestion with a suggestion held.
RejectNepSuggestion ==
  /\ held.suggestion # NoSuggestion
  /\ Dispatch(FALSE, 0, 0, <<>>, -1, "",
              [present |-> TRUE, suggestion |-> NoSuggestion, doc |-> doc.id])
  /\ UNCHANGED <<requests, currentController, errorLog, exceptEditor>>

\* --------------------------- the capacity-based cached predictor (backend)

\* Decimal digits of a number, as `${n}` writes it.
Digit == <<"0", "1", "2", "3", "4", "5", "6", "7", "8", "9">>

RECURSIVE digits(_)
digits(n) ==
  IF n < 10 THEN <<Digit[n + 1]>>
  ELSE digits(n \div 10) \o <<Digit[(n % 10) + 1]>>

\* The cache key of an editor state: `${from}::${to}::${text}`.
cacheKey_withoutTo(state) ==
  digits(state.from) \o <<":", ":">> \o state.text

cacheKey(state) ==
  digits(state.from) \o <<":", ":">> \o digits(state.to) \o <<":", ":">>
    \o state.text

\* Map.has, Map.get and Map.set on the entries in insertion order; set keeps
\* the place of a key that is present.
cacheHas(entries, key) == \E i \in 1..Len(entries) : entries[i].key = key

cacheGet(entries, key) ==
  entries[CHOOSE i \in 1..Len(entries) : entries[i].key = key]

cacheSet(entries, entry) ==
  IF cacheHas(entries, entry.key)
    THEN [i \in 1..Len(entries) |->
            IF entries[i].key = entry.key
              THEN [entry EXCEPT !.at = entries[i].at] ELSE entries[i]]
    ELSE Append(entries, entry)

\* A read leaves the Map as it is: the entry keeps its place.
cacheRead_refresh(entries, key) ==
  LET i == CHOOSE j \in 1..Len(entries) : entries[j].key = key
  IN SubSeq(entries, 1, i - 1) \o SubSeq(entries, i + 1, Len(entries))
       \o <<entries[i]>>

cacheRead(entries, key) == entries

\* The oldest entry goes when the cache has grown beyond its capacity.
evictOldest_latest(entries, size) ==
  IF Len(entries) > size
    THEN SubSeq(entries, 1, Len(entries) - 2) \o <<entries[Len(entries)]>>
    ELSE entries

evictOldest_never(entries, size) == entries

evictOldest(entries, size) ==
  IF Len(entries) > size THEN Tail(entries) ELSE entries

\* The documents and selections the cached predictor is called with: a
\* digit occurs in the texts as it does in the key.
CacheTexts == {<<>>, <<"1">>}

CacheStates ==
  UNION {{st \in [from : 0..Len(text), to : 0..Len(text), text : {text}] :
            st.from <= st.to} : text \in CacheTexts}

NoResult == [for |-> <<>>, n |-> 0]

CacheIdle ==
  /\ cache = <<>>
  /\ maxSize = DEFAULT_MAX_SIZE
  /\ calls = <<>>
  /\ delegateCalls = 0

\* PredictionBackend.cached(delegate, maxSize), and
\* PredictionBackend.cached(delegate) with the default capacity.
CacheInit ==
  /\ cache = <<>>
  /\ maxSize \in (1..MaxCacheSize) \cup {DEFAULT_MAX_SIZE}
  /\ calls = <<>>
  /\ delegateCalls = 0

\* The entries whose state agrees with `state` in from, to and text.
residentFor(state) ==
  {i \in 1..Len(cache) : /\ cache[i].state.from = state.from
                         /\ cache[i].state.to = state.to
                         /\ cache[i].state.text = state.text}

\* The calls that await their delegate.
inFlight == Cardinality({i \in 1..Len(calls) : calls[i].pc = "delegate"})

\* cachedPredictor(state), up to its return (a hit) or its await of the
\* delegate (a miss).
CachedCall ==
  /\ Len(calls) < MaxCalls
  /\ \E state \in CacheStates :
       \E key \in {cacheKey(state)} :
         LET resident == residentFor(state)
             stored == IF resident = {} THEN NoResult
                       ELSE cache[CHOOSE i \in resident : TRUE].result
             call == [state |-> state, key |-> key, resident |-> resident # {},
                      stored |-> stored]
         IN IF cacheHas(cache, key)
              THEN /\ calls' = Append(calls, call @@
                                 [pc |-> "done", outcome |-> "hit", invoked |-> 0,
                                  at |-> 0,
                                  result |-> cacheGet(cache, key).result])
                   /\ cache' = cacheRead(cache, key)
                   /\ UNCHANGED delegateCalls
              ELSE /\ inFlight < MaxInFlight
                   /\ calls' = Append(calls, call @@
                                 [pc |-> "delegate", outcome |-> "pending",
                                  invoked |-> 1, at |-> 0,
                                  result |-> NoResult])
                   /\ delegateCalls' = delegateCalls + 1
                   /\ UNCHANGED cache
  /\ UNCHANGED <<maxSize, exceptCache>>

\* The number of results stored so far.
storesSoFar == Cardinality({i \in 1..Len(calls) : calls[i].outcome = "miss"})

\* The delegate of call i resolves: the result is stored (the entry records
\* the how-manieth store it was), the oldest entry evicted if the cache is
\* over capacity, and the result returned.
DelegateResolves ==
  \E i \in 1..Len(calls) :
    /\ calls[i].pc = "delegate"
    /\ \E result \in {[for |-> calls[i].key, n |-> i]} :
         /\ cache' = evictOldest(cacheSet(cache, [key |-> calls[i].key,
                                                    result |-> result,
                                                    state |-> calls[i].state,
                                                    at |-> storesSoFar + 1]),
                                 maxSize)
         /\ calls' = [calls EXCEPT ![i].pc = "done", ![i].outcome = "miss",
                                   ![i].at = storesSoFar + 1,
                                   ![i].result = result]
    /\ UNCHANGED <<maxSize, delegateCalls, exceptCache>>

\* What a rejection of the delegate leaves in the Map: nothing new.
cacheOnReject_store(entries, entry) == cacheSet(entries, entry)

cacheOnReject(entries, entry) == entries

\* The delegate of call i rejects: nothing is stored, the call rejects.
DelegateRejects ==
  \E i \in 1..Len(calls) :
    /\ calls[i].pc = "delegate"
    /\ calls' = [calls EXCEPT ![i].pc = "done", ![i].outcome = "failed"]
    /\ cache' = cacheOnReject(cache, [key |-> calls[i].key, result |-> NoResult,
                                      state |-> calls[i].state,
                                      at |-> storesSoFar + 1])
    /\ UNCHANGED <<maxSize, delegateCalls, exceptCache>>

CacheNext == CachedCall \/ DelegateResolves \/ DelegateRejects

\* ------------------------------------- the inline-suggestion extension

\* The documents of the editor, and the texts fetchFn resolves to.
InlineTexts == UNION {[1..n -> Typed] : n \in 0..MaxInlineLen}
InlineResults == {<<>>, <<"a">>}

\* string | null
NoValue == [some |-> FALSE, text |-> <<>>]
Some(text) == [some |-> TRUE, text |-> text]

\* if (value): null and the empty string are falsy.
truthy(value) == value.some /\ value.text # <<>>

NoEntry == [result |-> <<>>, timestamp |-> -1]

\* Date.now() - entry.timestamp > this.timeout
expired_atTimeout(entry, t, timeout) == t - entry.timestamp >= timeout
expired(entry, t, timeout) == t - entry.timestamp > timeout

\* SuggestionCache.get(key) at time t: the value returned and the Map
\* after the call.
SuggestionCache_get(entries, key, t, timeout) ==
  IF entries[key] = NoEntry
    THEN [value |-> NoValue, cache |-> entries]
    ELSE IF expired(entries[key], t, timeout)
           THEN [value |-> NoValue, cache |-> [entries EXCEPT ![key] = NoEntry]]
           ELSE [value |-> Some(entries[key].result), cache |-> entries]

\* SuggestionCache.set(key, value) at time t.
SuggestionCache_set(entries, key, value, t) ==
  [entries EXCEPT ![key] = [result |-> value, timestamp |-> t]]

\* InlineSuggestionState.update for a transaction that carries an
\* InlineSuggestionEffect {text, doc} on the document `current`.
InlineSuggestionState_update(current, text, effectDoc) ==
  IF current = effectDoc THEN Some(text) ELSE NoValue

NoLookup == [doc |-> 0, key |-> <<>>, found |-> FALSE, age |-> 0, value |-> NoValue]

\* The extension is not installed.
InlineIdle ==
  /\ inlineDoc = [id |-> 0, text |-> <<>>]
  /\ inlineSuggestion = NoValue
  /\ suggestionCache = [key \in InlineTexts |-> NoEntry]
  /\ cacheTimeout = 0
  /\ now = 0
  /\ fetching = {}
  /\ abortController = "null"
  /\ destroyed = FALSE
  /\ got = NoLookup

\* inlineCompletion(options) installed on an empty document.
InlineInit ==
  /\ inlineDoc = [id |-> 0, text |-> <<>>]
  /\ inlineSuggestion = NoValue
  /\ suggestionCache = [key \in InlineTexts |-> NoEntry]
  /\ cacheTimeout \in 0..MaxTimeout
  /\ now = 0
  /\ fetching = {}
  /\ abortController = "null"
  /\ destroyed = FALSE
  /\ got = NoLookup

\* The guards of the plugin's update before it touches the controller:
\* the update changes the document and beforeSuggestionFetch does not
\* answer false.
fetchesOn_anyUpdate(update) == update.before

fetchesOn(update) == update.docChanged /\ update.before

\* The plugin's update for a transaction of the user on the document docId
\* with the text `text`.  InlineSuggestionState drops the suggestion; the
\* plugin, if it goes on, replaces the controller, looks the document text
\* up in the cache, and dispatches the cached text or calls fetchFn.
InlineUpdate(update, docId, text) ==
  \E r \in {SuggestionCache_get(suggestionCache, text, now, cacheTimeout)} :
    IF ~fetchesOn(update)
      THEN /\ inlineSuggestion' = NoValue
           /\ UNCHANGED <<suggestionCache, fetching, abortController, got>>
      ELSE /\ abortController' = "live"
           /\ got' = [doc |-> docId, key |-> text,
                      found |-> suggestionCache[text] # NoEntry,
                      age |-> IF suggestionCache[text] = NoEntry
                                THEN 0
                                ELSE now - suggestionCache[text].timestamp,
                      value |-> r.value]
           /\ suggestionCache' = r.cache
           /\ IF truthy(r.value)
                THEN /\ inlineSuggestion' =
                          InlineSuggestionState_update(docId, r.value.text, docId)
                     /\ UNCHANGED fetching
                ELSE /\ Cardinality(fetching) < MaxInFlight
                     /\ inlineSuggestion' = NoValue
                     /\ fetching' = fetching \cup {[key |-> text, doc |-> docId]}

\* A transaction changes the document; beforeSuggestionFetch answers
\* `before`.
InlineDocChangedWith(before) ==
  /\ ~destroyed
  /\ inlineDoc.id < MaxEdits
  /\ \E text \in InlineTexts :
       /\ inlineDoc' = [id |-> inlineDoc.id + 1, text |-> text]
       /\ InlineUpdate([docChanged |-> TRUE, before |-> before],
                       inlineDoc.id + 1, text)
  /\ UNCHANGED <<cacheTimeout, now, destroyed, exceptInline>>

InlineDocChanged == \E before \in BOOLEAN : InlineDocChangedWith(before)

\* A transaction changes the selection and leaves the document as it is.
InlineSelectionChanged ==
  /\ ~destroyed
  /\ InlineUpdate([docChanged |-> FALSE, before |-> TRUE],
                  inlineDoc.id, inlineDoc.text)
  /\ UNCHANGED <<inlineDoc, cacheTimeout, now, destroyed, exceptInline>>

\* fetchFn resolves: unless the plugin's controller is aborted or
\* shouldShowSuggestion answers false, the result is stored under the key
\* of the call and dispatched with the document of the call.
FetchResolves ==
  /\ \E f \in fetching, result \in InlineResults, show \in BOOLEAN :
       /\ fetching' = fetching \ {f}
       /\ IF abortController = "aborted" \/ ~show
            THEN UNCHANGED <<suggestionCache, inlineSuggestion>>
            ELSE /\ suggestionCache' =
                      SuggestionCache_set(suggestionCache, f.key, result, now)
                 /\ inlineSuggestion' =
                      InlineSuggestionState_update(inlineDoc.id, result, f.doc)
  /\ UNCHANGED <<inlineDoc, cacheTimeout, now, abortController, destroyed,
                 got, exceptInline>>

\* fetchFn rejects: the error is logged unless it is an AbortError.
FetchRejects ==
  /\ \E f \in fetching : fetching' = fetching \ {f}
  /\ UNCHANGED <<inlineDoc, inlineSuggestion, suggestionCache, cacheTimeout,
                 now, abortController, destroyed, got, exceptInline>>

\* Time passes.
Tick ==
  /\ now < MaxNow
  /\ now' = now + 1
  /\ UNCHANGED <<inlineDoc, inlineSuggestion, suggestionCache, cacheTimeout,
                 fetching, abortController, destroyed, got, exceptInline>>

\* Plugin.destroy()
InlineDestroy ==
  /\ ~destroyed
  /\ destroyed' = TRUE
  /\ abortController' = IF abortController = "null" THEN "null" ELSE "aborted"
  /\ UNCHANGED <<inlineDoc, inlineSuggestion, suggestionCache, cacheTimeout,
                 now, fetching, got, exceptInline>>

InlineNext ==
  \/ InlineDocChanged
  \/ InlineSelectionChanged
  \/ FetchResolves
  \/ FetchRejects
  \/ Tick
  \/ InlineDestroy

\* ------------------------------------------ the two forms of the applier

\* The documents an operation is applied to, and the texts it inserts.
OpTexts == UNION {[1..n -> Alphabet] : n \in 0..MaxDocLen}

\* The operations whose position, count and removeCount lie within `text`.
OperationsOn(text) ==
  LET positions == 0..Len(text)
  IN UNION {
       {[type |-> "add", position |-> p, text |-> t] :
          p \in positions, t \in OpTexts},
       UNION {{[type |-> "remove", position |-> p, count |-> c] :
                 c \in 0..(Len(text) - p)} : p \in positions},
       UNION {{[type |-> "modify", position |-> p, insertText |-> t,
                removeCount |-> c] :
                 c \in 0..(Len(text) - p), t \in OpTexts} : p \in positions},
       {[type |-> "cursor", position |-> p] : p \in positions},
       {[type |-> "none"]}}

OpInputs ==
  UNION {[text : {text}, operation : OperationsOn(text),
          cursorPosition : {null} \cup (0..Len(text)),
          sel : 0..Len(text)] : text \in OpTexts}

NoSpec == [changes |-> NoChanges, selection |-> 0, userEvent |-> ""]

\* Text.replace(from, to, insert): the document of a transaction with one
\* change region.
replaceRange(text, from, to, insert) ==
  [i \in 1..(Len(text) - (to - from) + Len(insert)) |->
     IF i <= from THEN text[i]
     ELSE IF i <= from + Len(insert) THEN insert[i - from]
     ELSE text[i - Len(insert) + (to - from)]]

\* state.update(spec).state: document and selection after the transaction.
stateUpdate(state, spec) ==
  [text |-> IF spec.changes.present
              THEN replaceRange(state.text, spec.changes.from,
                                spec.changes.to, spec.changes.insert)
              ELSE state.text,
   sel |-> spec.selection]

\* Neither form of the applier is in use.
OpIdle ==
  /\ opInput = [text |-> <<>>, operation |-> [type |-> "none"],
                cursorPosition |-> null, sel |-> 0]
  /\ opText = <<>>
  /\ opSpec = NoSpec
  /\ opState = [text |-> <<>>, sel |-> 0]
  /\ opPc = "input"

\* A document, a selection in it, and an operation within it.
OpInit ==
  /\ opInput \in OpInputs
  /\ opText = <<>>
  /\ opSpec = NoSpec
  /\ opState = [text |-> opInput.text, sel |-> opInput.sel]
  /\ opPc = "input"

\* applyDiffOperation(text, operation)
ApplyToText ==
  /\ opPc = "input"
  /\ opText' = applyDiffOperation(opInput.text, opInput.operation)
  /\ opPc' = "text"
  /\ UNCHANGED <<opInput, opSpec, opState, exceptOp>>

\* view.dispatch(insertDiffText({state, operation, cursorPosition}))
ApplyToDocument ==
  /\ opPc = "text"
  /\ \E spec \in {insertDiffText([state |-> opState,
                                  operation |-> opInput.operation,
                                  cursorPosition |-> opInput.cursorPosition])} :
       /\ opSpec' = spec
       /\ opState' = stateUpdate(opState, spec)
  /\ opPc' = "document"
  /\ UNCHANGED <<opInput, opText, exceptOp>>

OpNext == ApplyToText \/ ApplyToDocument

\* --------------------------------------- the applier for a suggestion

\* String.prototype.replace(pattern, "") with a string pattern: the first
\* occurrence of the pattern is removed.
replaceFirst(text, pattern) ==
  LET at == {i \in 1..(Len(text) - Len(pattern) + 1) :
               SubSeq(text, i, i + Len(pattern) - 1) = pattern}
  IN IF at = {} \/ pattern = <<>>
       THEN text
       ELSE LET i == CHOOSE j \in at : \A k \in at : j <= k
            IN SubSeq(text, 1, i - 1) \o SubSeq(text, i + Len(pattern), Len(text))

\* insertDiffText(state, suggestion, cursorMarker): a transaction spec.
insertSuggestionText(state, suggestion, cursorMarker) ==
  IF suggestion.ghostText = <<>> \/ ~includes(suggestion.newText, cursorMarker)
    THEN \* Fallback to original behavior
         LET cleanText ==
               trim(replaceFirst(replaceFirst(suggestion.newText,
                                              <<cursorMarker, "\n">>),
                                 <<cursorMarker>>))
         IN [changes |-> [present |-> TRUE, from |-> 0, to |-> Len(state.text),
                          insert |-> cleanText],
             selection |-> Len(cleanText),
             userEvent |-> "input.complete"]
    ELSE [changes |-> [present |-> TRUE, from |-> suggestion.to,
                       to |-> suggestion.to, insert |-> suggestion.ghostText],
          selection |-> suggestion.to + Len(suggestion.ghostText),
          userEvent |-> "input.complete"]

\* The characters of a predicted text: a letter, a blank, a line break and
\* the cursor marker.
PredictedTexts ==
  UNION {[1..n -> {"a", " ", "\n", CURSOR_MARKER}] : n \in 0..MaxLen}

\* A document and a suggestion for it; a suggestion without ghost text has
\* the empty one.
InsInputs ==
  UNION {[text : {text}, newText : PredictedTexts,
          ghostText : {<<>>, <<"a">>}, to : 0..Len(text)] :
           text \in UNION {[1..n -> Typed] : n \in 0..MaxDocLen}}

\* The applier for a suggestion is not in use.
InsIdle ==
  /\ insInput = [text |-> <<>>, newText |-> <<>>, ghostText |-> <<>>, to |-> 0]
  /\ insSpec = NoSpec
  /\ insState = [text |-> <<>>, sel |-> 0]
  /\ insPc = "input"

InsInit ==
  /\ insInput \in InsInputs
  /\ insSpec = NoSpec
  /\ insState = [text |-> insInput.text, sel |-> 0]
  /\ insPc = "input"

\* view.dispatch(insertDiffText(state, suggestion))
InsertSuggestion ==
  /\ insPc = "input"
  /\ \E spec \in {insertSuggestionText(insState,
                                       [newText |-> insInput.newText,
                                        to |-> insInput.to,
                                        ghostText |-> insInput.ghostText],
                                       CURSOR_MARKER)} :
       /\ insSpec' = spec
       /\ insState' = stateUpdate(insState, spec)
  /\ insPc' = "document"
  /\ UNCHANGED <<insInput, exceptIns>>

InsNext == InsertSuggestion

\* ---------------------------------------------------- cleanPrediction

\* The special tokens, each in its two parts: "<|INT" "ENT|>",
\* "<|EDIT_" "START|>" and "<|EDIT_" "END|>".
INTENT == <<"<|INT", "ENT|>">>
EDIT_START == <<"<|EDIT_", "START|>">>
EDIT_END == <<"<|EDIT_", "END|>">>

\* Whether `token` stands at index i of `text`.
tokenAt(text, i, token) ==
  i + Len(token) - 1 <= Len(text) /\ SubSeq(text, i, i + Len(token) - 1) = token

\* The least index from `start` on at which `token` stands, or 0.
tokenFrom(text, start, token) ==
  LET at == {i \in start..Len(text) : tokenAt(text, i, token)}
  IN IF at = {} THEN 0 ELSE CHOOSE i \in at : \A j \in at : i <= j

\* prediction.match(/<\|INTENT\|>([\s\S]*?)<\|EDIT_START\|>/)?.[1]?.trim() ?? ""
intentOf(text) ==
  LET i == tokenFrom(text, 1, INTENT)
      j == IF i = 0 THEN 0 ELSE tokenFrom(text, i + Len(INTENT), EDIT_START)
  IN IF j = 0 THEN <<>> ELSE trim(SubSeq(text, i + Len(INTENT), j - 1))

\* .replace(/<\|INTENT\|>[\s\S]*?<\|EDIT_START\|>/g, "")
removeIntents_first(text) ==
  LET i == tokenFrom(text, 1, INTENT)
      j == IF i = 0 THEN 0 ELSE tokenFrom(text, i + Len(INTENT), EDIT_START)
  IN IF j = 0
       THEN text
       ELSE SubSeq(text, 1, i - 1)
              \o SubSeq(text, j + Len(EDIT_START), Len(text))

RECURSIVE removeIntents(_)
removeIntents(text) ==
  LET i == tokenFrom(text, 1, INTENT)
      j == IF i = 0 THEN 0 ELSE tokenFrom(text, i + Len(INTENT), EDIT_START)
  IN IF j = 0
       THEN text
       ELSE SubSeq(text, 1, i - 1)
              \o removeIntents(SubSeq(text, j + Len(EDIT_START), Len(text)))

\* .replace(/<\|EDIT_START\|>\n?|<\|EDIT_END\|>\n?/g, "")
RECURSIVE removeEditTokens(_)
removeEditTokens(text) ==
  IF text = <<>> THEN <<>>
  ELSE IF tokenAt(text, 1, EDIT_START) \/ tokenAt(text, 1, EDIT_END)
    THEN LET end == IF Len(text) > 2 /\ text[3] = "\n" THEN 3 ELSE 2
         IN removeEditTokens(SubSeq(text, end + 1, Len(text)))
  ELSE <<Head(text)>> \o removeEditTokens(Tail(text))

cleanPrediction(text) ==
  [cleaned |-> trim(removeEditTokens(removeIntents(text))),
   intent |-> intentOf(text)]

\* The texts of a prediction: sequences of a letter, a line break, the
\* cursor marker and the parts of the special tokens, and sequences of a
\* letter, a line break, the cursor marker and whole special tokens.
PredictionUnits ==
  {<<"a">>, <<"\n">>, <<CURSOR_MARKER>>, INTENT, EDIT_START, EDIT_END}

Predictions ==
  UNION {[1..n -> {"a", "\n", CURSOR_MARKER, "<|INT", "ENT|>", "<|EDIT_",
                   "START|>", "END|>"}] : n \in 0..MaxPredictionLen}
    \cup UNION {{Flatten(units) : units \in [1..n -> PredictionUnits]} :
                  n \in 0..MaxTokens}

NotCleaned == [cleaned |-> <<>>, intent |-> <<>>]

\* cleanPrediction is not in use.
CleanIdle ==
  /\ prediction = <<>>
  /\ cleanedOnce = NotCleaned
  /\ cleanedTwice = NotCleaned
  /\ cleanPc = "input"

CleanInit ==
  /\ prediction \in Predictions
  /\ cleanedOnce = NotCleaned
  /\ cleanedTwice = NotCleaned
  /\ cleanPc = "input"

\* cleanPrediction(prediction)
Clean ==
  /\ cleanPc = "input"
  /\ cleanedOnce' = cleanPrediction(prediction)
  /\ cleanPc' = "once"
  /\ UNCHANGED <<prediction, cleanedTwice, exceptClean>>

\* cleanPrediction(cleaned)
CleanAgain ==
  /\ cleanPc = "once"
  /\ cleanedTwice' = cleanPrediction(cleanedOnce.cleaned)
  /\ cleanPc' = "twice"
  /\ UNCHANGED <<prediction, cleanedOnce, exceptClean>>

CleanNext == Clean \/ CleanAgain

\* ------------------- the commands of the inline-suggestion extension

\* InlineSuggestionState.update(value, tr); the effect of tr, if any, is
\* {text, doc}, and sameDoc says whether tr.state.doc is its doc.
InlineSuggestionState_keepsWithoutEffect(value, tr) ==
  IF ~tr.effect.present THEN value
  ELSE IF tr.effect.present /\ tr.effect.sameDoc THEN tr.effect.text
  ELSE NoValue

InlineSuggestionState_updateBy(value, tr) ==
  IF ~tr.docChanged /\ ~tr.effect.present /\ ~tr.selection THEN value
  ELSE IF tr.effect.present /\ tr.effect.sameDoc THEN tr.effect.text
  ELSE NoValue

\* insertCompletionText(state, text, from, to) for a selection of one
\* range: the change and the caret after it.
insertCompletionText(state, text, from, to) ==
  [changes |-> [present |-> TRUE, from |-> from, to |-> to, insert |-> text],
   selection |-> from + Len(text),
   userEvent |-> "input.complete"]

\* The editor states a command is run on: no suggestion, the empty
\* suggestion, or a suggestion of one or two characters.
CmdInputs ==
  UNION {[text : {text}, sel : 0..Len(text),
          suggestion : {NoValue, Some(<<>>), Some(<<"b">>), Some(<<"b", "a">>)}] :
           text \in OpTexts}

NoCommand == [command |-> "", returned |-> FALSE, dispatched |-> FALSE]

\* No command is run.
CmdIdle ==
  /\ cmdInput = [text |-> <<>>, sel |-> 0, suggestion |-> NoValue]
  /\ cmdState = [text |-> <<>>, sel |-> 0, suggestion |-> NoValue]
  /\ cmdResult = NoCommand

CmdInit ==
  /\ cmdInput \in CmdInputs
  /\ cmdState = cmdInput
  /\ cmdResult = NoCommand

\* acceptInlineCompletion(view)
AcceptInlineCompletion ==
  /\ cmdResult = NoCommand
  /\ IF ~truthy(cmdState.suggestion)
       THEN /\ cmdResult' = [command |-> "accept", returned |-> FALSE,
                             dispatched |-> FALSE]
            /\ UNCHANGED cmdState
       ELSE \E spec \in {insertCompletionText(cmdState, cmdState.suggestion.text,
                                              cmdState.sel, cmdState.sel)} :
              /\ cmdState' =
                   [text |-> stateUpdate(cmdState, spec).text,
                    sel |-> stateUpdate(cmdState, spec).sel,
                    suggestion |->
                      InlineSuggestionState_updateBy(
                        cmdState.suggestion,
                        [docChanged |-> TRUE, selection |-> TRUE,
                         effect |-> [present |-> FALSE, text |-> NoValue,
                                     sameDoc |-> FALSE]])]
              /\ cmdResult' = [command |-> "accept", returned |-> TRUE,
                               dispatched |-> TRUE]
  /\ UNCHANGED <<cmdInput, exceptCmd>>

\* rejectInlineCompletion(view)
RejectInlineCompletion ==
  /\ cmdResult = NoCommand
  /\ IF ~truthy(cmdState.suggestion)
       THEN /\ cmdResult' = [command |-> "reject", returned |-> FALSE,
                             dispatched |-> FALSE]
            /\ UNCHANGED cmdState
       ELSE /\ cmdState' =
                 [cmdState EXCEPT !.suggestion =
                    InlineSuggestionState_updateBy(
                      cmdState.suggestion,
                      [docChanged |-> FALSE, selection |-> FALSE,
                       effect |-> [present |-> TRUE, text |-> NoValue,
                                   sameDoc |-> TRUE]])]
            /\ cmdResult' = [command |-> "reject", returned |-> TRUE,
                             dispatched |-> TRUE]
  /\ UNCHANGED <<cmdInput, exceptCmd>>

CmdNext == AcceptInlineCompletion \/ RejectInlineCompletion

\* --------------------------------------- the prompt-history extension

\* The effects of a transaction: addPromptEffect.of(prompt) and
\* setNavigationEffect.of({index, originalText}).
addPromptEffect(prompt) ==
  [type |-> "addPrompt", prompt |-> prompt, index |-> -1, originalText |-> <<>>]
setNavigationEffect(index, originalText) ==
  [type |-> "setNavigation", prompt |-> <<>>, index |-> index,
   originalText |-> originalText]

\* prompts.filter((p) => p !== prompt)
RECURSIVE filterOut(_, _)
filterOut(prompts, prompt) ==
  IF prompts = <<>> THEN <<>>
  ELSE IF Head(prompts) = prompt THEN filterOut(Tail(prompts), prompt)
  ELSE <<Head(prompts)>> \o filterOut(Tail(prompts), prompt)

\* [prompt, ...filtered].slice(0, MAX_PROMPTS)
addPrompt_unfiltered(prompts, prompt) ==
  SubSeq(<<prompt>> \o prompts, 1, Min(Len(prompts) + 1, MAX_PROMPTS))

addPrompt(prompts, prompt) ==
  SubSeq(<<prompt>> \o filterOut(prompts, prompt), 1,
         Min(Len(filterOut(prompts, prompt)) + 1, MAX_PROMPTS))

\* tr.effects.some((e) => e.is(setNavigationEffect) || e.is(addPromptEffect))
isFromNavigation_always(effects) == TRUE

isFromNavigation(effects) ==
  \E i \in 1..Len(effects) : effects[i].type \in {"setNavigation", "addPrompt"}

\* The loop over tr.effects of historyState.update: `state` is the value
\* before the transaction, newState the value built so far.
RECURSIVE applyEffects(_, _, _)
applyEffects(state, newState, effects) ==
  IF effects = <<>> THEN newState
  ELSE LET effect == Head(effects)
           next ==
             IF effect.type = "addPrompt"
               THEN [prompts |-> IF trim(effect.prompt) # <<>>
                                   THEN addPrompt(state.prompts, trim(effect.prompt))
                                   ELSE newState.prompts,
                     navigationIndex |-> -1,
                     originalText |-> <<>>]
               ELSE [prompts |-> newState.prompts,
                     navigationIndex |-> effect.index,
                     originalText |-> effect.originalText]
       IN applyEffects(state, next, Tail(effects))

\* historyState.update(state, tr)
historyState_update(state, tr) ==
  applyEffects(state,
               IF tr.docChanged /\ state.navigationIndex # -1
                    /\ ~isFromNavigation(tr.effects)
                 THEN [state EXCEPT !.navigationIndex = -1,
                                    !.originalText = <<>>]
                 ELSE state,
               tr.effects)

\* state.prompts[index], undefined read as the empty text.
promptAt(prompts, index) ==
  IF index + 1 \in DOMAIN prompts THEN prompts[index + 1] ELSE <<>>

\* The index navigateUp moves to while navigating.
olderIndex_unclamped(index, length) == index + 1

olderIndex(index, length) == Min(index + 1, length - 1)

\* The documents of the prompt editor.
HistTexts ==
  { <<>>, <<" ">>, <<"a">>, <<"b">>, <<" ", "a">>, <<"a", " ">>,
    <<"a", "b">>, <<"b", "a">> }

NoHistory == [prompts |-> <<>>, navigationIndex |-> -1, originalText |-> <<>>]
NoHistCommand == [command |-> "", returned |-> FALSE, from |-> -1]

\* The extension is not installed.
HistIdle ==
  /\ histDoc = <<>>
  /\ history = NoHistory
  /\ histLast = NoHistCommand

\* promptHistory() on a document, without stored prompts.
HistInit ==
  /\ histDoc \in HistTexts
  /\ history = NoHistory
  /\ histLast = NoHistCommand

\* view.dispatch({changes: {from: 0, to: doc.length, insert}, effects})
HistDispatch(insert, effects) ==
  /\ histDoc' = insert
  /\ history' = historyState_update(
                  history,
                  [docChanged |-> (histDoc # <<>> \/ insert # <<>>),
                   effects |-> effects])

\* navigateUp(view)
NavigateUp ==
  /\ IF history.prompts = <<>>
       THEN /\ histLast' = [command |-> "up", returned |-> FALSE,
                            from |-> history.navigationIndex]
            /\ UNCHANGED <<histDoc, history>>
     ELSE IF history.navigationIndex = -1
       THEN IF Len(histDoc) > 0
              THEN /\ histLast' = [command |-> "up", returned |-> FALSE,
                                   from |-> history.navigationIndex]
                   /\ UNCHANGED <<histDoc, history>>
              ELSE /\ histLast' = [command |-> "up", returned |-> TRUE,
                                   from |-> history.navigationIndex]
                   /\ HistDispatch(promptAt(history.prompts, 0),
                                   <<setNavigationEffect(0, histDoc)>>)
     ELSE \E newIndex \in {olderIndex(history.navigationIndex,
                                      Len(history.prompts))} :
            IF newIndex = history.navigationIndex
              THEN /\ histLast' = [command |-> "up", returned |-> FALSE,
                                   from |-> history.navigationIndex]
                   /\ UNCHANGED <<histDoc, history>>
              ELSE /\ histLast' = [command |-> "up", returned |-> TRUE,
                                   from |-> history.navigationIndex]
                   /\ HistDispatch(promptAt(history.prompts, newIndex),
                                   <<setNavigationEffect(newIndex,
                                                         history.originalText)>>)
  /\ UNCHANGED exceptHist

\* navigateDown(view)
NavigateDown ==
  /\ IF history.navigationIndex = -1
       THEN /\ histLast' = [command |-> "down", returned |-> FALSE,
                            from |-> history.navigationIndex]
            /\ UNCHANGED <<histDoc, history>>
     ELSE /\ histLast' = [command |-> "down", returned |-> TRUE,
                          from |-> history.navigationIndex]
          /\ IF history.navigationIndex = 0
               THEN HistDispatch(history.originalText,
                                 <<setNavigationEffect(-1, history.originalText)>>)
               ELSE HistDispatch(promptAt(history.prompts,
                                          history.navigationIndex - 1),
                                 <<setNavigationEffect(history.navigationIndex - 1,
                                                       history.originalText)>>)
  /\ UNCHANGED exceptHist

\* storePrompt(view)
StorePrompt ==
  /\ IF trim(histDoc) # <<>>
       THEN /\ histLast' = [command |-> "store", returned |-> TRUE,
                            from |-> history.navigationIndex]
            /\ history' = historyState_update(
                            history,
                            [docChanged |-> FALSE,
                             effects |-> <<addPromptEffect(histDoc)>>])
            /\ UNCHANGED histDoc
       ELSE /\ histLast' = [command |-> "store", returned |-> FALSE,
                            from |-> history.navigationIndex]
            /\ UNCHANGED <<histDoc, history>>
  /\ UNCHANGED exceptHist

\* The user edits the document: a transaction with changes and no effect
\* of the extension.
HistUserEdits ==
  /\ \E text \in HistTexts \ {histDoc} :
       /\ histDoc' = text
       /\ history' = historyState_update(history,
                                         [docChanged |-> TRUE, effects |-> <<>>])
  /\ histLast' = [command |-> "edit", returned |-> FALSE,
                  from |-> history.navigationIndex]
  /\ UNCHANGED exceptHist

\* A transaction that leaves the document as it is and carries no effect
\* of the extension: the selection moves.
HistSelects ==
  /\ history' = historyState_update(history,
                                    [docChanged |-> FALSE, effects |-> <<>>])
  /\ histLast' = [command |-> "select", returned |-> FALSE,
                  from |-> history.navigationIndex]
  /\ UNCHANGED <<histDoc, exceptHist>>

HistNext ==
  \/ NavigateUp
  \/ NavigateDown
  \/ StorePrompt
  \/ HistUserEdits
  \/ HistSelects

\* ---------------------------------------------------- the AI-edit extension

AiLetters == {"a", "\n"}
AiDocs == UNION {[1..n -> AiLetters] : n \in 0..MaxAiLen}

\* What the complete function resolves with: the empty string is not a
\* valid result.
AiResults == {<<>>, <<"b">>}

\* Text.lines, Text.lineAt(pos).number, Text.line(n).from and Text.line(n).to;
\* line(n) throws a RangeError unless hasLine.
newlines(text, pos) == Cardinality({i \in 1..pos : text[i] = "\n"})
docLines(text) == 1 + newlines(text, Len(text))
lineAt(text, pos) == 1 + newlines(text, pos)
hasLine(text, n) == 1 <= n /\ n <= docLines(text)
lineStart(text, n) ==
  IF n = 1 THEN 0
  ELSE CHOOSE i \in 1..Len(text) : text[i] = "\n" /\ newlines(text, i) = n - 1
lineEnd(text, n) ==
  IF n = docLines(text) THEN Len(text)
  ELSE (CHOOSE i \in 1..Len(text) : text[i] = "\n" /\ newlines(text, i) = n) - 1

Hidden == [show |-> FALSE, lineFrom |-> 0, lineTo |-> 0]
NoCompletion ==
  [some |-> FALSE, from |-> 0, to |-> 0, oldCode |-> <<>>, newCode |-> <<>>,
   by |-> 0, before |-> <<>>]

\* The extension is not installed.
AiIdle ==
  /\ aiDoc = <<>>
  /\ inputState = Hidden
  /\ completionState = NoCompletion
  /\ loadingState = FALSE
  /\ aiRequests = <<>>
  /\ widgets = 0
  /\ controllers = [w \in 1..MaxWidgets |-> 0]

\* aiExtension(options) installed on a document.
AiInit ==
  /\ aiDoc \in AiDocs
  /\ inputState = Hidden
  /\ completionState = NoCompletion
  /\ loadingState = FALSE
  /\ aiRequests = <<>>
  /\ widgets = 0
  /\ controllers = [w \in 1..MaxWidgets |-> 0]

\* The widget of the input that is shown, 0 if none is.
shownWidget == IF inputState.show THEN widgets ELSE 0

\* InputWidget.cleanup() of widget w (0: no widget) on the requests and the
\* controllers `st`: the controller, if there is one, is aborted and
\* dropped, and the DOM is removed.
cleanup(st, w) ==
  IF w = 0 THEN st
  ELSE IF st.controllers[w] <= 0
    THEN [st EXCEPT !.controllers[w] = -1]
  ELSE [requests |->
          [st.requests EXCEPT
             ![st.controllers[w]].aborted = TRUE,
             ![st.controllers[w]].cancelled =
                @ \/ st.requests[st.controllers[w]].pc = "flight"],
        controllers |-> [st.controllers EXCEPT ![w] = -1]]

\* A transaction hides the input: the view removes the widget that is shown
\* and calls its destroy().
Destroyed == cleanup([requests |-> aiRequests, controllers |-> controllers], shownWidget)

\* showAiEditInput(view) with the main selection from..to: what it returns
\* and the inputState it dispatches.
showAiEditInput(text, from, to) ==
  LET fromLine == lineAt(text, from)
      toLine == lineAt(text, to)
      selectionText == slice(text, lineStart(text, fromLine), lineEnd(text, toLine))
  IN IF from = to \/ Len(trim(selectionText)) < MIN_SELECTION_LENGTH
       THEN [returned |-> FALSE, input |-> Hidden]
       ELSE [returned |-> TRUE,
             input |-> [show |-> TRUE,
                        lineFrom |-> Max(1, Min(fromLine, docLines(text))),
                        lineTo |-> Max(1, Min(toLine, docLines(text)))]]

\* The user selects from..to and runs showAiEditInput; an input that was
\* hidden is rendered as a new widget.
ShowAiEditInput ==
  /\ \E from \in 0..Len(aiDoc), to \in 0..Len(aiDoc) :
       /\ from <= to
       /\ \E r \in {showAiEditInput(aiDoc, from, to)} :
            IF r.returned
              THEN /\ ~inputState.show => widgets < MaxWidgets
                   /\ inputState' = r.input
                   /\ widgets' = IF inputState.show THEN widgets ELSE widgets + 1
              ELSE UNCHANGED <<inputState, widgets>>
  /\ UNCHANGED <<aiDoc, completionState, loadingState, aiRequests, controllers,
                 exceptAi>>

\* closeAiEditInput(view)
CloseAiEditInput ==
  /\ inputState' = Hidden
  /\ loadingState' = FALSE
  /\ aiRequests' = Destroyed.requests
  /\ controllers' = Destroyed.controllers
  /\ UNCHANGED <<aiDoc, completionState, widgets, exceptAi>>

\* InputWidget.onCancel of the widget that is shown (Escape in the input or
\* a click on one of its cancel buttons).
OnCancel ==
  /\ inputState.show
  /\ controllers[widgets] >= 0
  /\ inputState' = Hidden
  /\ loadingState' = FALSE
  /\ aiRequests' = Destroyed.requests
  /\ controllers' = Destroyed.controllers
  /\ UNCHANGED <<aiDoc, completionState, widgets, exceptAi>>

\* InputWidget.handleSubmit up to the call of the complete function, with a
\* prompt that is not empty.  doc.line throws for a line that does not
\* exist; nothing has changed by then.
HandleSubmit ==
  /\ inputState.show
  /\ controllers[widgets] >= 0
  /\ Len(aiRequests) < MaxSubmits
  /\ IF hasLine(aiDoc, inputState.lineFrom) /\ hasLine(aiDoc, inputState.lineTo)
       THEN /\ aiRequests' =
                 Append(aiRequests,
                        [fromPos |-> lineStart(aiDoc, inputState.lineFrom),
                         toPos |-> lineEnd(aiDoc, inputState.lineTo),
                         oldCode |-> slice(aiDoc, lineStart(aiDoc, inputState.lineFrom),
                                           lineEnd(aiDoc, inputState.lineTo)),
                         widget |-> widgets, aborted |-> FALSE, pc |-> "flight",
                         end |-> "", cancelled |-> FALSE, exact |-> FALSE,
                         decided |-> ""])
            /\ controllers' = [controllers EXCEPT ![widgets] = Len(aiRequests) + 1]
            /\ loadingState' = TRUE
       ELSE UNCHANGED <<aiRequests, controllers, loadingState>>
  /\ UNCHANGED <<aiDoc, inputState, completionState, widgets, exceptAi>>

\* The range handleSubmit captured is the extent of the lines of the input
\* state in the document, and the captured text is the text in it.
CurrentExtent(req) ==
  /\ hasLine(aiDoc, inputState.lineFrom)
  /\ hasLine(aiDoc, inputState.lineTo)
  /\ req.fromPos = lineStart(aiDoc, inputState.lineFrom)
  /\ req.toPos = lineEnd(aiDoc, inputState.lineTo)
  /\ req.oldCode = slice(aiDoc, req.fromPos, req.toPos)

\* How handleSubmit goes on when the complete function has resolved with
\* `result`: nothing if the input is hidden; an error for an invalid
\* result; otherwise the dispatch, which throws for a range beyond the
\* document.
outcome(req, result) ==
  CASE ~inputState.show -> "hidden"
    [] inputState.show /\ result = <<>> -> "invalid"
    [] inputState.show /\ result # <<>> /\ req.toPos > Len(aiDoc) -> "range"
    [] OTHER -> "applied"

\* Request i has ended: what handleSubmit captured for it is used no more.
ended(reqs, i, end) ==
  [reqs EXCEPT ![i].pc = "done", ![i].end = end,
               ![i].fromPos = 0, ![i].toPos = 0, ![i].oldCode = <<>>]

\* The complete function of request i resolves and handleSubmit runs to
\* its end; its finally block cleans up the widget it ran on.
CompleteResolves ==
  /\ \E i \in 1..Len(aiRequests), result \in AiResults :
       /\ aiRequests[i].pc = "flight"
       /\ \E end \in {outcome(aiRequests[i], result)} :
            /\ \E st \in {cleanup(
                            cleanup([requests |->
                                       [ended(aiRequests, i, end) EXCEPT
                                          ![i].exact = (end = "applied"
                                                        /\ CurrentExtent(aiRequests[i]))],
                                     controllers |-> controllers],
                                    IF end = "applied" THEN shownWidget ELSE 0),
                            aiRequests[i].widget)} :
                 /\ aiRequests' = st.requests
                 /\ controllers' = st.controllers
            /\ IF end = "applied"
                 THEN /\ aiDoc' = slice(aiDoc, 0, aiRequests[i].fromPos) \o result
                                    \o sliceFrom(aiDoc, aiRequests[i].toPos)
                      /\ inputState' = Hidden
                      /\ completionState' =
                           [some |-> TRUE,
                            from |-> aiRequests[i].fromPos,
                            to |-> aiRequests[i].fromPos + Len(result),
                            oldCode |-> aiRequests[i].oldCode,
                            newCode |-> result,
                            by |-> i,
                            before |-> aiDoc]
                      /\ loadingState' = FALSE
                 ELSE UNCHANGED <<aiDoc, inputState, completionState, loadingState>>
  /\ UNCHANGED <<widgets, exceptAi>>

\* The complete function of request i rejects: with an AbortError if its
\* signal is aborted, or with another error, which goes to onError.
CompleteRejects ==
  /\ \E i \in 1..Len(aiRequests), end \in {"cancelled", "error"} :
       /\ aiRequests[i].pc = "flight"
       /\ end = "cancelled" => aiRequests[i].aborted
       /\ \E st \in {cleanup([requests |-> ended(aiRequests, i, end),
                              controllers |-> controllers],
                             aiRequests[i].widget)} :
            /\ aiRequests' = st.requests
            /\ controllers' = st.controllers
  /\ UNCHANGED <<aiDoc, inputState, completionState, loadingState, widgets,
                 exceptAi>>

\* lineShiftListener for an update with one change: fromA is its start in
\* the old document, fromB..toB what it inserted in the new one.
lineShiftListener(input, text, fromA, fromB, toB) ==
  IF ~input.show THEN input
  ELSE LET changePosLine == lineAt(text, fromA)
           linesAdded == lineAt(text, toB) - lineAt(text, fromB)
       IN IF changePosLine < input.lineFrom
            THEN [show |-> TRUE, lineFrom |-> input.lineFrom + linesAdded,
                  lineTo |-> input.lineTo + linesAdded]
          ELSE IF changePosLine <= input.lineTo
            THEN [show |-> TRUE, lineFrom |-> input.lineFrom,
                  lineTo |-> input.lineTo + linesAdded]
          ELSE input

\* The user types a character at p.
AiUserTypes ==
  /\ Len(aiDoc) < MaxAiLen
  /\ \E p \in 0..Len(aiDoc), c \in AiLetters :
       /\ aiDoc' = slice(aiDoc, 0, p) \o <<c>> \o sliceFrom(aiDoc, p)
       /\ inputState' = lineShiftListener(inputState, aiDoc', p, p, p + 1)
       /\ inputState'.lineTo <= MaxLine
  /\ UNCHANGED <<completionState, loadingState, aiRequests, widgets, controllers,
                 exceptAi>>

\* The user deletes the character after p.
AiUserDeletes ==
  /\ \E p \in 0..(Len(aiDoc) - 1) :
       /\ aiDoc' = slice(aiDoc, 0, p) \o sliceFrom(aiDoc, p + 1)
       /\ inputState' = lineShiftListener(inputState, aiDoc', p, p, p)
  /\ UNCHANGED <<completionState, loadingState, aiRequests, widgets, controllers,
                 exceptAi>>

\* acceptAiEdit(view) and rejectAiEdit(view): what they return and whether
\* they call view.dispatch.
acceptAiEdit(completion) ==
  [returned |-> completion.some, dispatched |-> completion.some]
rejectAiEdit(completion) ==
  [returned |-> completion.some, dispatched |-> completion.some]

\* The completion of request `by` has been accepted or rejected.
decide(reqs, by, decided) == [reqs EXCEPT ![by].decided = decided]

AcceptAiEdit ==
  /\ IF acceptAiEdit(completionState).dispatched
       THEN /\ completionState' = NoCompletion
            /\ inputState' = Hidden
            /\ loadingState' = FALSE
            /\ aiRequests' = decide(Destroyed.requests, completionState.by, "accepted")
            /\ controllers' = Destroyed.controllers
       ELSE UNCHANGED <<completionState, inputState, loadingState, aiRequests,
                        controllers>>
  /\ UNCHANGED <<aiDoc, widgets, exceptAi>>

\* view.dispatch throws a RangeError for a range beyond the document; the
\* command has changed nothing by then.
RejectAiEdit ==
  /\ IF rejectAiEdit(completionState).dispatched /\ completionState.to <= Len(aiDoc)
       THEN /\ aiDoc' = slice(aiDoc, 0, completionState.from)
                          \o completionState.oldCode
                          \o sliceFrom(aiDoc, completionState.to)
            /\ completionState' = NoCompletion
            /\ inputState' = Hidden
            /\ loadingState' = FALSE
            /\ aiRequests' =
                 decide(Destroyed.requests, completionState.by,
                        IF slice(aiDoc, completionState.from, completionState.to)
                             # completionState.newCode
                          THEN "stale"
                        ELSE IF aiDoc' = completionState.before
                          THEN "restored"
                        ELSE "differs")
            /\ controllers' = Destroyed.controllers
       ELSE UNCHANGED <<aiDoc, completionState, inputState, loadingState,
                        aiRequests, controllers>>
  /\ UNCHANGED <<widgets, exceptAi>>

AiNext ==
  \/ ShowAiEditInput
  \/ OnCancel
  \/ CloseAiEditInput
  \/ HandleSubmit
  \/ CompleteResolves
  \/ CompleteRejects
  \/ AiUserTypes
  \/ AiUserDeletes
  \/ AcceptAiEdit
  \/ RejectAiEdit

\* The commands of the inline-suggestion extension alone.
InitCmd ==
  CmdInit /\ EditorInit /\ DiffIdle /\ CacheIdle /\ InlineIdle /\ OpIdle
    /\ InsIdle
    /\ CleanIdle
    /\ HistIdle
    /\ AiIdle

SpecCmd == InitCmd /\ [][CmdNext]_vars

\* The prompt-history extension alone.
InitHist ==
  HistInit /\ EditorInit /\ DiffIdle /\ CacheIdle /\ InlineIdle /\ OpIdle
    /\ InsIdle
    /\ CleanIdle
    /\ CmdIdle
    /\ AiIdle

SpecHist == InitHist /\ [][HistNext]_vars

\* The AI-edit extension alone.
InitAi == AiInit /\ EditorInit /\ DiffIdle /\ CacheIdle /\ InlineIdle /\ OpIdle
    /\ InsIdle
    /\ CleanIdle
    /\ CmdIdle
    /\ HistIdle

SpecAi == InitAi /\ [][AiNext]_vars

\* The cached predictor alone.
InitCache == CacheInit /\ EditorInit /\ DiffIdle /\ InlineIdle /\ OpIdle /\ InsIdle
    /\ CleanIdle
    /\ CmdIdle
    /\ HistIdle
    /\ AiIdle

SpecCache == InitCache /\ [][CacheNext]_vars

\* The inline-suggestion extension alone.
InitInline == InlineInit /\ EditorInit /\ DiffIdle /\ CacheIdle /\ OpIdle /\ InsIdle
    /\ CleanIdle
    /\ CmdIdle
    /\ HistIdle
    /\ AiIdle

SpecInline == InitInline /\ [][InlineNext]_vars

\* The two forms of the applier alone.
InitOp == OpInit /\ EditorInit /\ DiffIdle /\ CacheIdle /\ InlineIdle /\ InsIdle
    /\ CleanIdle
    /\ CmdIdle
    /\ HistIdle
    /\ AiIdle

SpecOp == InitOp /\ [][OpNext]_vars

\* The applier for a suggestion alone.
InitIns ==
  InsInit /\ EditorInit /\ DiffIdle /\ CacheIdle /\ InlineIdle /\ OpIdle
    /\ CleanIdle
    /\ CmdIdle
    /\ HistIdle
    /\ AiIdle

SpecIns == InitIns /\ [][InsNext]_vars

\* cleanPrediction alone.
InitClean ==
  CleanInit /\ EditorInit /\ DiffIdle /\ CacheIdle /\ InlineIdle /\ OpIdle
    /\ InsIdle
    /\ CmdIdle
    /\ HistIdle
    /\ AiIdle

SpecClean == InitClean /\ [][CleanNext]_vars


DiffNext == Classify \/ Apply \/ NextSuggestion

\* The diff pipeline alone.
InitDiff == DiffInit /\ EditorInit /\ CacheIdle /\ InlineIdle /\ OpIdle /\ InsIdle
    /\ CleanIdle
    /\ CmdIdle
    /\ HistIdle
    /\ AiIdle

SpecDiff == InitDiff /\ [][DiffNext]_vars

\* The classifier called again for a pair it has classified.
SpecRepeat == InitDiff /\ [][RepeatNext]_vars

\* The diff computer on texts of words and whitespace.
InitWorded == WordedInit /\ EditorInit /\ CacheIdle /\ InlineIdle /\ OpIdle /\ InsIdle
    /\ CleanIdle
    /\ CmdIdle
    /\ HistIdle
    /\ AiIdle

SpecWorded == InitWorded /\ [][WordedNext]_vars

Init == EditorInit /\ DiffIdle /\ CacheIdle /\ InlineIdle /\ OpIdle /\ InsIdle
    /\ CleanIdle
    /\ CmdIdle
    /\ HistIdle
    /\ AiIdle

Next ==
  \/ UserTypes
  \/ UserDeletes
  \/ UserMovesCursor
  \/ TimerFires
  \/ FetchFails
  \/ FetchResponds
  \/ BodyFails
  \/ BodyArrives
  \/ AcceptNepSuggestion
  \/ RejectNepSuggestion

Spec == Init /\ [][Next]_vars

\* ------------------------------------------------------- claims: the diff

oldTextClean == replace(diffText.oldText, CURSOR_MARKER)
newTextClean == replace(diffText.newText, CURSOR_MARKER)
operation == diffResult.operation

\* The chunks handed to the bound finder for the current pair, and the
\* indices (1-based) of the changed ones.
currentDiffs == diffChunks
changedChunks == {i \in 1..Len(currentDiffs) : isChanged(currentDiffs[i])}
firstChanged == CHOOSE i \in changedChunks : \A j \in changedChunks : i <= j
lastChanged == CHOOSE i \in changedChunks : \A j \in changedChunks : j <= i

\* The values of the chunks of `diffs` whose index is in `idx`, in order.
RECURSIVE valuesOf(_, _, _)
valuesOf(diffs, idx, n) ==
  IF n = 0 THEN <<>>
  ELSE valuesOf(diffs, idx, n - 1) \o (IF n \in idx THEN diffs[n].value ELSE <<>>)

addedInRegion ==
  valuesOf(currentDiffs, {i \in changedChunks : currentDiffs[i].added}, Len(currentDiffs))
removedInRegion ==
  valuesOf(currentDiffs, {i \in changedChunks : currentDiffs[i].removed}, Len(currentDiffs))
unchangedBeforeRegion ==
  valuesOf(currentDiffs, 1..(firstChanged - 1), Len(currentDiffs))

\* The changed chunks are separated by unchanged text.
SeveralRegions ==
  \E i \in firstChanged..lastChanged : ~isChanged(currentDiffs[i])

\* C1: if the new text carries the cursor marker and the classifier returns
\* an add, remove or modify operation, applying it to the marker-stripped
\* old text yields exactly the marker-stripped new text, for one changed
\* region as for several regions separated by unchanged text.
C1_RoundTrip ==
  (diffPc = "applied" /\ includes(diffText.newText, CURSOR_MARKER)
     /\ operation.type \in {"add", "remove", "modify"})
    => appliedText = newTextClean

\* Two changed regions with unchanged text between them: the operation
\* applied to the old text does not give the new text.
C1_SeveralRegionsLost ==
  /\ diffPc = "applied"
  /\ includes(diffText.newText, CURSOR_MARKER)
  /\ changedChunks # {}
  /\ SeveralRegions
  /\ operation.type = "modify"
  /\ appliedText # newTextClean

C3_CursorOrNone_AsStated ==
  (diffPc = "classified" /\ changedChunks = {})
    => IF oldTextClean = newTextClean
            /\ indexOf(diffText.oldText, CURSOR_MARKER)
                 # indexOf(diffText.newText, CURSOR_MARKER)
         THEN operation = [type |-> "cursor",
                           position |-> indexOf(diffText.newText, CURSOR_MARKER)]
         ELSE operation = [type |-> "none"]

\* C3, amended: when newText carries the cursor marker and the diff has no
\* added or removed chunk, the classifier emits cursor{marker offset in
\* newText} if the marker-stripped texts are identical and the marker
\* offsets of oldText and newText differ (an oldText without marker has
\* offset -1), and none in every other case.
C3_CursorOrNone ==
  (diffPc = "classified" /\ includes(diffText.newText, CURSOR_MARKER)
     /\ changedChunks = {})
    => IF oldTextClean = newTextClean
            /\ indexOf(diffText.oldText, CURSOR_MARKER)
                 # indexOf(diffText.newText, CURSOR_MARKER)
         THEN operation = [type |-> "cursor",
                           position |-> indexOf(diffText.newText, CURSOR_MARKER)]
         ELSE operation = [type |-> "none"]

C3_Witness ==
  /\ diffPc = "classified"
  /\ operation.type = "cursor"
  /\ includes(diffText.oldText, CURSOR_MARKER)
  /\ operation.position # indexOf(diffText.oldText, CURSOR_MARKER)
  /\ oldTextClean # <<>>

\* C4: a newText without the cursor marker gives the operation none with
\* cursorPosition null, whatever oldText is and whether or not the texts
\* differ; empty texts, identical texts and a missing marker are classified
\* (no error) as none or cursor.
C4_NoMarkerIsNone ==
  diffPc = "classified"
    => /\ ~includes(diffText.newText, CURSOR_MARKER)
            => diffResult = [operation |-> [type |-> "none"], cursorPosition |-> null]
       /\ (\/ ~includes(diffText.newText, CURSOR_MARKER)
           \/ oldTextClean = newTextClean
           \/ (oldTextClean = <<>> /\ newTextClean = <<>>))
            => operation.type \in {"none", "cursor"}

C4_Witness ==
  /\ diffPc = "classified"
  /\ ~includes(diffText.newText, CURSOR_MARKER)
  /\ includes(diffText.oldText, CURSOR_MARKER)
  /\ oldTextClean # newTextClean
  /\ diffResult.cursorPosition = null

HeldIsCurrent == held.suggestion # NoSuggestion => held.doc = doc.id

\* Request i ends in this step: its effect is dispatched.
Ends(i) == requests[i].pc # "done" /\ requests'[i].pc = "done"

\* C6: for every interleaving of edits and responses, a response captured
\* for document snapshot D installs a suggestion only if D is still the
\* current document when its effect is applied, and the effect of a response
\* for a stale snapshot leaves the held suggestion as it was; so the held
\* suggestion is always one for the current document.
C6_StaleResponseDiscarded ==
  [][/\ HeldIsCurrent'
     /\ \A i \in 1..Len(requests) :
          Ends(i) =>
            IF requests[i].state.doc.id = doc.id
              THEN /\ held'.doc = requests[i].state.doc.id
                   /\ held'.suggestion.from = requests[i].state.sel
                   /\ replace(held'.suggestion.oldText, CURSOR_MARKER)
                        = requests[i].state.doc.text
              ELSE held' = held]_vars

\* A prediction arrived for a snapshot the user had edited away and was
\* discarded, and the response for the current document is held.
C6_Witness ==
  /\ \E i \in 1..Len(requests) :
       /\ requests[i].pc = "done"
       /\ requests[i].end = "success"
       /\ requests[i].stale
  /\ held.suggestion # NoSuggestion
  /\ held.doc = doc.id
  /\ \E j \in 1..Len(requests) :
       requests[j].pc = "done" /\ requests[j].state.doc.id = held.doc

\* C7: at most one request is current: the controller of every request but
\* the most recently issued one has been aborted, and currentController is
\* that of the most recent request.
C7_OneCurrentRequest ==
  /\ currentController = Len(requests)
  /\ \A i \in 1..Len(requests) :
       i # Len(requests) => requests[i].aborted
  /\ Len(requests) > 0 => ~requests[Len(requests)].aborted

\* A request still in flight was aborted by the invocation after it.
C7_Witness ==
  /\ Len(requests) >= 2
  /\ requests[1].aborted
  /\ requests[1].pc # "done"
  /\ ~requests[Len(requests)].aborted

\* C8: the edits fired within one debounce window result in exactly one
\* invocation of the predictor, with the editor state the final edit
\* produced: there is one invocation per window that has closed, and three
\* edits in a window are one invocation.
C8_OneCallPerBurst ==
  /\ Len(requests) = bursts - (IF timer.pending THEN 1 ELSE 0)
  /\ \A i \in 1..Len(requests) :
       /\ requests[i].burst >= 1
       /\ requests[i].state = requests[i].finalEdit

\* Three edits in one window, and one invocation.
C8_Witness ==
  /\ Len(requests) = 1
  /\ bursts = 1
  /\ ~timer.pending
  /\ requests[1].burst = 3
  /\ requests[1].state.doc.id = 3
  /\ requests[1].state.doc = doc

\* C9 as stated: a request that ends because it was cancelled is not logged
\* as a failure, and a request that ends with any other error is reported.
C9_AbortSwallowedOthersReported ==
  \A i \in 1..Len(requests) :
    requests[i].pc = "done" =>
      /\ requests[i].end = "cancelled" => ~requests[i].logged
      /\ requests[i].end = "failed" => requests[i].logged

\* A request cancelled while its response body was being read is logged.
C9_CancelledWhileReadingBody ==
  \E i \in 1..Len(requests) :
    /\ requests[i].pc = "done"
    /\ requests[i].end = "cancelled"
    /\ requests[i].aborted
    /\ requests[i].logged
    /\ i \in {errorLog[k] : k \in 1..Len(errorLog)}

\* ----------------------------------------- claims: the cached predictor

\* C10: a call of the capacity-based cached predictor whose selection from,
\* selection to and document text equal those of an entry resident in the
\* cache returns the stored result without invoking the delegate, and a call
\* that differs from every resident entry in one of the three invokes the
\* delegate exactly once.
C10_HitIffResident ==
  /\ \A i \in 1..Len(calls) :
       IF calls[i].resident
         THEN /\ calls[i].outcome = "hit"
              /\ calls[i].invoked = 0
              /\ calls[i].result = calls[i].stored
         ELSE /\ calls[i].outcome # "hit"
              /\ calls[i].invoked = 1
  /\ delegateCalls = Cardinality({i \in 1..Len(calls) : ~calls[i].resident})

\* A miss, a hit on its entry, and a miss of a call that differs from the
\* entry in the selection end alone.
C10_Witness ==
  \E i, j, k \in 1..Len(calls) :
    /\ i < j /\ j < k
    /\ calls[i].outcome = "miss"
    /\ calls[j].state = calls[i].state
    /\ calls[j].outcome = "hit"
    /\ calls[j].result = calls[i].result
    /\ calls[k].state.from = calls[i].state.from
    /\ calls[k].state.text = calls[i].state.text
    /\ calls[k].state.to # calls[i].state.to
    /\ calls[k].invoked = 1
    /\ delegateCalls = 2

\* The keys resident in a cache.
keysOf(entries) == {entries[i].key : i \in 1..Len(entries)}

\* The result of a miss is stored in this step, for a key not yet resident.
Inserts(i) ==
  /\ calls[i].pc = "delegate"
  /\ calls'[i].outcome = "miss"
  /\ calls[i].key \notin keysOf(cache)

\* The entry of a cache whose key was inserted earliest.
earliest(entries) ==
  CHOOSE i \in 1..Len(entries) : \A j \in 1..Len(entries) : entries[i].at <= entries[j].at

\* C11: after any sequence of calls the cache holds at most maxSize entries
\* (20 when no maxSize is given), and when the result of a miss is inserted
\* into a full cache the entry evicted is the one inserted earliest: every
\* other entry stays, and the new one is resident.
C11_BoundedEvictsEarliest ==
  [][/\ Len(cache') <= maxSize
     /\ maxSize \in (1..MaxCacheSize) \cup {DEFAULT_MAX_SIZE}
     /\ \A i \in 1..Len(calls) :
          (Inserts(i) /\ Len(cache) = maxSize) =>
            /\ keysOf(cache') =
                 (keysOf(cache) \ {cache[earliest(cache)].key}) \cup {calls[i].key}
            /\ \A j \in 1..Len(cache') : \A k \in 1..Len(cache') :
                 j < k => cache'[j].at < cache'[k].at]_vars

\* An insertion into a full cache of two entries, made by a call that
\* resolved after a call issued later than it: the earliest entry is gone,
\* the other one is resident.
C11_Witness ==
  /\ maxSize = 2
  /\ Len(cache) = 2
  /\ \E i, j, k \in 1..Len(calls) :
       /\ calls[i].outcome = "miss" /\ calls[j].outcome = "miss"
       /\ calls[k].outcome = "miss"
       /\ calls[i].result.n = 1 /\ calls[j].result.n = 3 /\ calls[k].result.n = 2
       /\ calls[i].key \notin keysOf(cache)
       /\ cache[1].key = calls[j].key
       /\ cache[2].key = calls[k].key

\* Calls 1, 2 and 4 are misses on three different fingerprints A, B and C,
\* stored in that order, and call 3 is a hit on A.
MissMissHitMiss ==
  /\ Len(calls) = 4
  /\ calls[1].at = 1 /\ calls[2].at = 2 /\ calls[4].at = 3
  /\ calls[3].outcome = "hit"
  /\ calls[3].state = calls[1].state
  /\ calls[1].state # calls[2].state
  /\ calls[4].state # calls[1].state
  /\ calls[4].state # calls[2].state

\* C12: a cache hit does not change the eviction order: with maxSize 2,
\* after misses on A then B, a hit on A and a miss on C, the entry evicted
\* is A, and B is still resident.
C12_HitKeepsOrder ==
  (maxSize = 2 /\ MissMissHitMiss)
    => /\ residentFor(calls[1].state) = {}
       /\ residentFor(calls[2].state) # {}
       /\ residentFor(calls[4].state) # {}
       /\ calls[1].key \notin keysOf(cache)
       /\ calls[2].key \in keysOf(cache)

C12_Witness ==
  /\ maxSize = 2
  /\ MissMissHitMiss
  /\ calls[3].result = calls[1].result
  /\ Len(cache) = 2

\* The delegate of call i rejects in this step.
Fails(i) == calls[i].pc = "delegate" /\ calls'[i].outcome = "failed"

\* No call has stored a result for the state so far.
NeverStored(state) ==
  \A k \in 1..Len(calls) : calls[k].state = state => calls[k].outcome # "miss"

\* C13: when the delegate fails, the cached predictor stores nothing and
\* the call ends as a failure; a call made after a failure with the same
\* fingerprint, for which no other call has stored a result, invokes the
\* delegate again.
C13_FailureNotCached ==
  [][/\ \A i \in 1..Len(calls) :
          Fails(i) => /\ cache' = cache
                      /\ calls'[i].pc = "done"
                      /\ calls'[i].result = NoResult
     /\ Len(calls') > Len(calls) =>
          \A i \in 1..Len(calls) :
            (/\ calls[i].outcome = "failed"
             /\ calls[i].state = calls'[Len(calls')].state
             /\ NeverStored(calls[i].state))
              => /\ calls'[Len(calls')].invoked = 1
                 /\ calls'[Len(calls')].pc = "delegate"
                 /\ delegateCalls' = delegateCalls + 1]_vars

\* A failure, and a later call with the same fingerprint whose delegate was
\* invoked and resolved.
C13_Witness ==
  \E i, j \in 1..Len(calls) :
    /\ i < j
    /\ calls[i].outcome = "failed"
    /\ calls[j].state = calls[i].state
    /\ calls[j].outcome = "miss"
    /\ \A k \in 1..Len(calls) : k \notin {i, j} => calls[k].state # calls[i].state
    /\ delegateCalls >= 2
    /\ residentFor(calls[i].state) # {}

\* A first, a second and a third fingerprint, all different, have been
\* requested and stored in that order, and no call is under way.
ThreeStored ==
  /\ Len(calls) = 3
  /\ \A i \in 1..3 : calls[i].pc = "done" /\ calls[i].at = i
  /\ calls[1].state # calls[2].state
  /\ calls[1].state # calls[3].state
  /\ calls[2].state # calls[3].state

\* The call made in this step is for the state of call i, and invokes the
\* delegate n times.
Again(i, n) ==
  calls'[4].state = calls[i].state => calls'[4].invoked = n

\* C14 as stated: against a capacity-1 cache, after a first, a second and a
\* third fingerprint have been requested in that order, requesting the first
\* again invokes the delegate and requesting the second again does not.
C14_SecondStillResident_AsStated ==
  [][(maxSize = 1 /\ ThreeStored /\ Len(calls') = 4)
       => Again(1, 1) /\ Again(2, 0)]_vars

\* C14, amended: against a capacity-1 cache, after a first, a second and a
\* third fingerprint have been requested in that order, only the third is
\* resident: requesting the first or the second again invokes the delegate,
\* requesting the third again does not.  Against a capacity-2 cache the
\* first is evicted and the second is still resident.
C14_OnlyLatestResident ==
  [][(ThreeStored /\ Len(calls') = 4)
       => /\ maxSize = 1 => Again(1, 1) /\ Again(2, 1) /\ Again(3, 0)
          /\ maxSize = 2 => Again(1, 1) /\ Again(2, 0) /\ Again(3, 0)]_vars

\* The second fingerprint requested again from a capacity-1 cache: the
\* delegate is invoked a fourth time.
C14_Witness ==
  /\ maxSize = 1
  /\ Len(calls) = 4
  /\ \A i \in 1..4 : calls[i].at = i
  /\ calls[1].state # calls[2].state
  /\ calls[1].state # calls[3].state
  /\ calls[2].state # calls[3].state
  /\ calls[4].state = calls[2].state
  /\ delegateCalls = 4

\* ------------------------------------------------- the time-based cache

\* This step looks the document text up in the SuggestionCache.
Lookup == got'.doc # got.doc

\* This step calls fetchFn for the new document.
Fetches ==
  [key |-> inlineDoc'.text, doc |-> inlineDoc'.id] \in fetching' \ fetching

\* C15: in the time-based cache, keyed by the full document text, a lookup
\* returns the stored result as long as now - timestamp <= timeout, and
\* returns a miss and deletes the entry once now - timestamp > timeout; an
\* entry is removed only by a lookup of its own key, and a lookup after
\* expiry invokes the fetch function again.
C15_LazyExpiry ==
  [][/\ Lookup =>
          \E key \in {inlineDoc'.text} : \E entry \in {suggestionCache[key]} :
            /\ got'.key = key
            /\ (entry # NoEntry /\ now - entry.timestamp <= cacheTimeout)
                 => /\ got'.value = Some(entry.result)
                    /\ suggestionCache'[key] = entry
            /\ (entry # NoEntry /\ now - entry.timestamp > cacheTimeout)
                 => /\ got'.value = NoValue
                    /\ suggestionCache'[key] = NoEntry
                    /\ Fetches
     /\ \A key \in InlineTexts :
          (suggestionCache[key] # NoEntry /\ suggestionCache'[key] = NoEntry)
            => Lookup /\ got'.key = key
    ]_vars

\* A lookup found its entry expired, deleted it and called fetchFn, while
\* the entry of another key, itself older than the timeout, stays.
C15_Witness ==
  /\ got.found
  /\ got.age > cacheTimeout
  /\ got.value = NoValue
  /\ suggestionCache[got.key] = NoEntry
  /\ [key |-> got.key, doc |-> got.doc] \in fetching
  /\ \E key \in InlineTexts :
       /\ key # got.key
       /\ suggestionCache[key] # NoEntry
       /\ now - suggestionCache[key].timestamp > cacheTimeout

\* A lookup found an entry exactly as old as the timeout and returned its
\* result.
C15_WitnessAtTimeout ==
  /\ got.found
  /\ got.age = cacheTimeout
  /\ cacheTimeout > 0
  /\ got.value.some

\* ------------------------------------------------------------ the applier

\* The text an add, remove or modify operation inserts.
insertedText(op) ==
  CASE op.type = "add" -> op.text
    [] op.type = "remove" -> <<>>
    [] op.type = "modify" -> op.insertText

\* Operations that change the text, and operations that do not.
Edits == {"add", "remove", "modify"}
Moves == {"cursor", "none"}

\* C16: the text-form applier returns, for add, the text with
\* operation.text spliced in at position; for remove, the text without the
\* characters in [position, position+count); for modify, the text with
\* [position, position+removeCount) replaced by insertText; for cursor and
\* none, the input text unchanged; an add with empty text and a remove with
\* count 0 return the input unchanged.
C16_TextForm ==
  opPc # "input" =>
    \E text \in {opInput.text} : \E op \in {opInput.operation} :
      /\ op.type = "add" =>
           /\ opText = replaceRange(text, op.position, op.position, op.text)
           /\ op.text = <<>> => opText = text
      /\ op.type = "remove" =>
           /\ opText = replaceRange(text, op.position,
                                    op.position + op.count, <<>>)
           /\ Len(opText) = Len(text) - op.count
           /\ op.count = 0 => opText = text
      /\ op.type = "modify" =>
           opText = replaceRange(text, op.position,
                                 op.position + op.removeCount, op.insertText)
      /\ op.type \in Moves => opText = text

\* A modify that removes and inserts has been applied to a text.
C16_Witness ==
  /\ opPc = "text"
  /\ opInput.operation.type = "modify"
  /\ opInput.operation.removeCount > 0
  /\ opInput.operation.insertText # <<>>
  /\ opInput.operation.position > 0
  /\ opText # opInput.text

\* C17: for every add, remove or modify operation, the document+selection
\* form emits exactly one change region whose effect on the document text
\* equals the text-form applier's result for the same operation, and places
\* the caret at position + length of the inserted text (at position for
\* remove).
C17_DocumentFormAgrees ==
  (opPc = "document" /\ opInput.operation.type \in Edits) =>
    /\ opSpec.changes.present
    /\ opState.text = opText
    /\ opState.sel = opInput.operation.position
                       + Len(insertedText(opInput.operation))
    /\ opInput.operation.type = "remove" =>
         opState.sel = opInput.operation.position

\* An add of a non-empty text in the middle has been applied to a document
\* whose caret stood elsewhere.
C17_Witness ==
  /\ opPc = "document"
  /\ opInput.operation.type = "add"
  /\ opInput.operation.text # <<>>
  /\ opInput.operation.position > 0
  /\ opInput.operation.position < Len(opInput.text)
  /\ opInput.sel # opState.sel
  /\ opState.text # opInput.text

\* C18: the document+selection form never changes the document text for a
\* cursor or none operation: for cursor it only moves the caret to
\* operation.position; for none it keeps the caller's current selection
\* when no desired cursor position is supplied (null) and otherwise puts
\* the caret at the supplied position.
C18_MovesLeaveText ==
  (opPc = "document" /\ opInput.operation.type \in Moves) =>
    /\ ~opSpec.changes.present
    /\ opState.text = opInput.text
    /\ opInput.operation.type = "cursor" =>
         opState.sel = opInput.operation.position
    /\ (opInput.operation.type = "none" /\ opInput.cursorPosition = null) =>
         opState.sel = opInput.sel
    /\ (opInput.operation.type = "none" /\ opInput.cursorPosition # null) =>
         opState.sel = opInput.cursorPosition

\* A none operation without a desired position has been applied to a
\* document whose caret is not at the start.
C18_Witness ==
  /\ opPc = "document"
  /\ opInput.operation.type = "none"
  /\ opInput.cursorPosition = null
  /\ opInput.sel > 0
  /\ opState.sel = opInput.sel

\* ------------------------------------------------------ the fallback path

\* The suggestion has no ghost text, or its new text has no cursor marker.
FallbackTaken ==
  /\ insPc = "document"
  /\ insInput.ghostText = <<>> \/ ~includes(insInput.newText, CURSOR_MARKER)

\* C19: when the caller supplies only a raw replacement string (no ghost
\* text, or a new text without the cursor marker), the fallback path
\* replaces the entire document [0, document length) with the cleaned
\* string, in which no cursor marker remains, and places the caret at the
\* end of the inserted text.
C19_FallbackStripsMarker ==
  FallbackTaken =>
    /\ insSpec.changes.present
    /\ insSpec.changes.from = 0
    /\ insSpec.changes.to = Len(insInput.text)
    /\ ~includes(insSpec.changes.insert, CURSOR_MARKER)
    /\ insState.text = insSpec.changes.insert
    /\ insState.sel = Len(insState.text)

\* What holds of the fallback path whatever the new text: the entire
\* document is replaced, and the caret is at the end of the inserted text.
C19_ReplacesWholeDocument ==
  FallbackTaken =>
    /\ insSpec.changes.present
    /\ insSpec.changes.from = 0
    /\ insSpec.changes.to = Len(insInput.text)
    /\ insState.text = insSpec.changes.insert
    /\ insState.sel = Len(insState.text)

\* The fallback path has put a text with a cursor marker into the document.
C19_MarkerRemains ==
  /\ FallbackTaken
  /\ includes(insState.text, CURSOR_MARKER)

\* ---------------------------------------------------------- idempotence

\* C20: cleaning a prediction is idempotent: cleaning the cleaned text of s
\* again returns the same cleaned text.
C20_CleanIdempotent ==
  cleanPc = "twice" => cleanedTwice.cleaned = cleanedOnce.cleaned

\* Some special token stands in `text`.
hasEditToken(text) ==
  \E i \in 1..Len(text) :
    tokenAt(text, i, EDIT_START) \/ tokenAt(text, i, EDIT_END)

\* What holds for every prediction: the second cleaning changes the text
\* only if the first left a special token in it.
C20_IdempotentUnlessTokenLeft ==
  (cleanPc = "twice" /\ ~hasEditToken(cleanedOnce.cleaned))
    => cleanedTwice.cleaned = cleanedOnce.cleaned

\* The first cleaning left a special token, which the second removes.
C20_TokenLeft ==
  /\ cleanPc = "twice"
  /\ hasEditToken(cleanedOnce.cleaned)
  /\ cleanedTwice.cleaned # cleanedOnce.cleaned

\* ------------------------------------------------- what cleaning keeps

\* The elements of `text` at the indices in `keep`, in their order.
RECURSIVE restrict(_, _)
restrict(text, keep) ==
  IF text = <<>> THEN <<>>
  ELSE restrict(SubSeq(text, 1, Len(text) - 1), keep)
         \o (IF Len(text) \in keep THEN <<text[Len(text)]>> ELSE <<>>)

\* The indices of `text` from an <|INTENT|> through the end of the next
\* <|EDIT_START|> after it.
inIntentBlock(text) ==
  {p \in 1..Len(text) :
     \E i \in 1..p :
       /\ tokenAt(text, i, INTENT)
       /\ \E j \in (i + Len(INTENT))..Len(text) :
            /\ tokenAt(text, j, EDIT_START)
            /\ \A k \in (i + Len(INTENT))..(j - 1) : ~tokenAt(text, k, EDIT_START)
            /\ p <= j + Len(EDIT_START) - 1}

\* The indices of the first such block only: from the first <|INTENT|>
\* that has an <|EDIT_START|> after it through the end of that
\* <|EDIT_START|>.
inFirstIntentBlock(text) ==
  LET all == inIntentBlock(text)
  IN {p \in all :
        \E i \in all :
          /\ \A q \in all : i <= q
          /\ \A k \in (i + Len(INTENT))..(p - Len(EDIT_START)) :
               ~tokenAt(text, k, EDIT_START)}

\* The indices of `text` that belong to an <|EDIT_START|> or <|EDIT_END|>
\* token, or hold the line break directly after one.
inEditToken(text) ==
  {p \in 1..Len(text) :
     \E i \in 1..p :
       /\ tokenAt(text, i, EDIT_START) \/ tokenAt(text, i, EDIT_END)
       /\ \/ p <= i + 1
          \/ p = i + 2 /\ text[p] = "\n"}

without(text, indices) == restrict(text, (1..Len(text)) \ indices)

\* The text between the first <|INTENT|> and the next <|EDIT_START|>.
firstIntent(text) ==
  IF inIntentBlock(text) = {}
    THEN <<>>
    ELSE LET i == CHOOSE p \in inIntentBlock(text) :
                    \A q \in inIntentBlock(text) : p <= q
             j == CHOOSE p \in (i + 2)..Len(text) :
                    /\ tokenAt(text, p, EDIT_START)
                    /\ \A q \in (i + 2)..(p - 1) : ~tokenAt(text, q, EDIT_START)
         IN SubSeq(text, i + 2, j - 1)

isTrimmed(text) ==
  text = <<>> \/ (text[1] \notin Whitespace /\ text[Len(text)] \notin Whitespace)

\* The intent is the trimmed text between the first <|INTENT|> and the next
\* <|EDIT_START|>, and the cleaned text is trimmed.
IntentAndTrim ==
  /\ cleanedOnce.intent = trim(firstIntent(prediction))
  /\ isTrimmed(cleanedOnce.intent)
  /\ isTrimmed(cleanedOnce.cleaned)

C22_MalformedPayloadRaised ==
  \A i \in 1..Len(requests) :
    (requests[i].pc = "done" /\ requests[i].cause = "malformed")
      => requests[i].returned \notin {"empty", "prediction"}

\* The predictor answered a response without the expected fields with the
\* empty suggestion, which the editor holds as the suggestion for its
\* document.
C22_MalformedBecomesSuggestion ==
  \E i \in 1..Len(requests) :
    /\ requests[i].pc = "done"
    /\ requests[i].cause = "malformed"
    /\ requests[i].returned = "empty"
    /\ requests[i].logged
    /\ held.doc = requests[i].state.doc.id
    /\ held.suggestion = [oldText |-> doc.text, newText |-> doc.text,
                          from |-> requests[i].state.sel,
                          to |-> requests[i].state.sel]

\* Request i ended on a transport failure, a response that is not ok, or
\* a cancellation.
FailedRequest(i) ==
  requests[i].pc = "done" /\ requests[i].cause \in {"network", "http", "abort"}

\* The suggestion in `value` is the empty suggestion for `state`.
IsEmptyFor(value, state) ==
  value = [oldText |-> state.doc.text, newText |-> state.doc.text,
           from |-> state.sel, to |-> state.sel]

\* The held suggestion is one that a failed request returned.
HoldsFailure ==
  \E i \in 1..Len(requests) :
    /\ FailedRequest(i)
    /\ held.doc = requests[i].state.doc.id
    /\ IsEmptyFor(held.suggestion, requests[i].state)

\* C23: on a transport failure, a non-2xx response or a cancellation, the
\* reference backend predictor never lets an exception escape: it resolves
\* with the empty suggestion {oldText: text, newText: text, from, to}, and
\* the classifier maps that suggestion to the operation none, so no
\* document change can result from a failed request.
C23_FailureIsEmptySuggestion ==
  [][/\ \A i \in 1..Len(requests) :
          (Ends(i) /\ requests'[i].cause \in {"network", "http", "abort"}) =>
            /\ requests'[i].returned = "empty"
            /\ doc' = doc
            /\ requests[i].state.doc.id = doc.id =>
                 /\ IsEmptyFor(held'.suggestion, requests[i].state)
                 /\ extractDiffOperation(held'.suggestion, CURSOR_MARKER)
                      = NoneResult
     /\ HoldsFailure =>
          insertDiffText([state |-> [doc |-> doc, sel |-> sel],
                          operation |->
                            extractDiffOperation(held.suggestion,
                                                 CURSOR_MARKER).operation,
                          cursorPosition |->
                            extractDiffOperation(held.suggestion,
                                                 CURSOR_MARKER).cursorPosition
                         ]).changes = NoChanges
    ]_vars

\* A request was cancelled, and the suggestion of a later request that got
\* a response that is not ok is held for a document that is not empty.
C23_Witness ==
  /\ HoldsFailure
  /\ doc.text # <<>>
  /\ \E i, j \in 1..Len(requests) :
       /\ FailedRequest(i) /\ requests[i].cause = "abort"
       /\ FailedRequest(j) /\ requests[j].cause = "http"
       /\ i < j
       /\ held.doc = requests[j].state.doc.id

CallsFetch == fetching' \ fetching # {}

\* C25: the inline-completion fetch plugin invokes the fetch function only
\* for editor updates that change the document: a selection-only update
\* never causes a fetch, and an update for which beforeSuggestionFetch
\* returns false never causes a fetch (and does not cancel the request
\* already in flight).
C25_FetchOnlyOnDocChange ==
  [][/\ CallsFetch => InlineDocChangedWith(TRUE)
     /\ InlineSelectionChanged =>
          /\ fetching' = fetching
          /\ abortController' = abortController
          /\ got' = got
     /\ InlineDocChangedWith(FALSE) =>
          /\ fetching' = fetching
          /\ abortController' = abortController
          /\ got' = got
    ]_vars

\* The document changed after the last lookup, so the last change was
\* declined by beforeSuggestionFetch, and the request made before it is in
\* flight and not cancelled.
C25_Witness ==
  /\ got.doc # 0
  /\ got.doc < inlineDoc.id
  /\ \E f \in fetching : f.doc = got.doc
  /\ abortController = "live"
  /\ ~destroyed

\* A suggestion is held: the field is neither null nor the empty string,
\* which the commands and the renderer take for no suggestion.
Held(state) == state.suggestion.some /\ state.suggestion.text # <<>>

\* C26: acceptInlineCompletion and rejectInlineCompletion return false and
\* dispatch nothing when no suggestion is held; when a suggestion is held,
\* accept inserts the suggestion text at the main caret and returns true,
\* reject returns true and leaves the document text unchanged, and after
\* either command no suggestion is held.
C26_Commands ==
  cmdResult.command # "" =>
    IF ~Held(cmdInput)
      THEN /\ ~cmdResult.returned
           /\ ~cmdResult.dispatched
           /\ cmdState = cmdInput
      ELSE /\ cmdResult.returned
           /\ ~Held(cmdState)
           /\ cmdState.suggestion = NoValue
           /\ cmdResult.command = "accept" =>
                cmdState.text =
                  SubSeq(cmdInput.text, 1, cmdInput.sel)
                    \o cmdInput.suggestion.text
                    \o SubSeq(cmdInput.text, cmdInput.sel + 1, Len(cmdInput.text))
           /\ cmdResult.command = "reject" =>
                /\ cmdState.text = cmdInput.text
                /\ cmdState.sel = cmdInput.sel

\* A suggestion of two characters was accepted with the caret inside the
\* document.
C26_Witness ==
  /\ cmdResult = [command |-> "accept", returned |-> TRUE, dispatched |-> TRUE]
  /\ cmdInput.text = <<"a", "b">>
  /\ cmdInput.sel = 1
  /\ cmdState.text = <<"a", "b", "a", "b">>

\* A suggestion was rejected.
C26_WitnessReject ==
  /\ cmdResult = [command |-> "reject", returned |-> TRUE, dispatched |-> TRUE]
  /\ cmdInput.text # <<>>
  /\ Held(cmdInput)

\* A command was run with no suggestion held.
C26_WitnessNone ==
  /\ cmdResult.command = "accept"
  /\ ~cmdResult.returned
  /\ cmdInput.suggestion = Some(<<>>)

\* ---------------------------------- claims: the prompt-history extension

\* The list holds no entry twice.
NoDuplicates(prompts) ==
  \A i, j \in 1..Len(prompts) : prompts[i] = prompts[j] => i = j

\* The list `after` is `before` with `prompt` moved or put to the front,
\* the other entries in their order, cut at the limit.
StoredFirst(before, after, prompt) ==
  /\ after # <<>>
  /\ after[1] = prompt
  /\ \E kept \in 0..Len(before) :
       \E others \in {SelectSeq(before, LAMBDA p : p # prompt)} :
         /\ kept = Min(Len(others), MAX_PROMPTS - 1)
         /\ Tail(after) = SubSeq(others, 1, kept)

HistUnchanged == histDoc' = histDoc /\ history' = history

\* Number of stored prompts.
StoredCount == Len(history.prompts)

\* C28: Up starts navigation (index 0, the most recent prompt shown) only
\* when the document is empty and at least one prompt is stored, and
\* returns false otherwise; a further Up shows the next older prompt; Up at
\* the oldest prompt returns false and leaves document and index unchanged.
\* Down returns false when not navigating and shows the next newer prompt
\* otherwise; Down from the most recent prompt restores the original text
\* and leaves navigation.  The index is always in [-1, n-1].
C28_Navigation ==
  [][/\ history'.navigationIndex \in -1..(Len(history'.prompts) - 1)
     /\ history'.navigationIndex # -1 => history'.originalText = <<>>
     /\ histLast'.command = "up" =>
          IF history.navigationIndex = -1
            THEN IF histDoc = <<>> /\ StoredCount >= 1
                   THEN /\ histLast'.returned
                        /\ history'.navigationIndex = 0
                        /\ history'.originalText = histDoc
                        /\ histDoc' = history.prompts[1]
                        /\ history'.prompts = history.prompts
                   ELSE ~histLast'.returned /\ HistUnchanged
          ELSE IF history.navigationIndex = StoredCount - 1
            THEN ~histLast'.returned /\ HistUnchanged
          ELSE /\ histLast'.returned
               /\ history'.navigationIndex = history.navigationIndex + 1
               /\ histDoc' = history.prompts[history.navigationIndex + 2]
               /\ history'.originalText = history.originalText
               /\ history'.prompts = history.prompts
     /\ histLast'.command = "down" =>
          IF history.navigationIndex = -1
            THEN ~histLast'.returned /\ HistUnchanged
          ELSE IF history.navigationIndex = 0
            THEN /\ histLast'.returned
                 /\ histDoc' = history.originalText
                 /\ history'.navigationIndex = -1
                 /\ history'.prompts = history.prompts
          ELSE /\ histLast'.returned
               /\ history'.navigationIndex = history.navigationIndex - 1
               /\ histDoc' = history.prompts[history.navigationIndex]
               /\ history'.originalText = history.originalText
               /\ history'.prompts = history.prompts
    ]_vars

\* Up at the oldest of two prompts returned false.
C28_Witness ==
  /\ histLast = [command |-> "up", returned |-> FALSE, from |-> 1]
  /\ StoredCount = 2
  /\ history.navigationIndex = 1
  /\ histDoc = history.prompts[2]

\* Down from the most recent prompt restored the empty document.
C28_WitnessDown ==
  /\ histLast = [command |-> "down", returned |-> TRUE, from |-> 0]
  /\ history.navigationIndex = -1
  /\ histDoc = <<>>
  /\ StoredCount >= 1

\* C29: any document change made while navigating prompt history that is
\* not produced by a navigation or store command resets navigation (index
\* -1, original text empty), so that a following Down returns false and
\* leaves the document unchanged; a transaction that does not change the
\* document and carries no history effect leaves the navigation state
\* unchanged.
C29_EditResetsNavigation ==
  [][/\ (histLast'.command = "edit" /\ history.navigationIndex # -1) =>
          /\ history'.navigationIndex = -1
          /\ history'.originalText = <<>>
          /\ history'.prompts = history.prompts
     /\ (histLast.command = "edit" /\ histLast'.command = "down") =>
          ~histLast'.returned /\ HistUnchanged
     /\ histLast'.command = "select" => HistUnchanged
    ]_vars

\* Down returned false on a document that is neither empty nor one of the
\* two stored prompts: it was typed after the prompts were stored.
C29_Witness ==
  /\ histLast = [command |-> "down", returned |-> FALSE, from |-> -1]
  /\ history.navigationIndex = -1
  /\ StoredCount = 2
  /\ histDoc \notin {<<>>, history.prompts[1], history.prompts[2]}

\* The selection moved while a prompt was shown, and the prompt is still
\* shown.
C29_WitnessSelect ==
  /\ histLast.command = "select"
  /\ histLast.from = 0
  /\ history.navigationIndex = 0
  /\ histDoc = history.prompts[1]

\* An edit was made while the second prompt was shown.
C29_WitnessEdit ==
  /\ histLast = [command |-> "edit", returned |-> FALSE, from |-> 1]
  /\ history.navigationIndex = -1

\* ----------------------------------------------- claims: the bound finder

\* The bound of the chunks of the current pair.
currentBound == findLargestDiffBound(currentDiffs)

\* The chunks strictly before the first changed one (1-based indices) that
\* are not added, and those that are not removed.
notAddedBefore ==
  {i \in 1..(firstChanged - 1) : ~currentDiffs[i].added}
notRemovedBefore ==
  {i \in 1..(firstChanged - 1) : ~currentDiffs[i].removed}

\* C30: the bound finder returns null exactly when no chunk is added or
\* removed; otherwise startIdx is the index of the first changed chunk,
\* endIdx the index of the last changed chunk anywhere in the sequence
\* (independent of the cursor), oldStart is the summed length of all
\* unchanged and removed chunks strictly before startIdx, and newStart is
\* the summed length of all unchanged and added chunks strictly before
\* startIdx.
C30_BoundFinder ==
  diffPc = "classified" =>
    /\ ~currentBound.found <=> changedChunks = {}
    /\ changedChunks # {} =>
         /\ currentBound.startIdx = firstChanged - 1
         /\ currentBound.endIdx = lastChanged - 1
         /\ currentBound.oldStart =
              Len(valuesOf(currentDiffs, notAddedBefore, Len(currentDiffs)))
         /\ currentBound.newStart =
              Len(valuesOf(currentDiffs, notRemovedBefore, Len(currentDiffs)))

\* Two changed regions after an unchanged chunk, whatever the place of the
\* cursor marker: the bound runs from the first region to the second.
C30_Witness ==
  /\ diffPc = "classified"
  /\ changedChunks # {}
  /\ firstChanged > 1
  /\ SeveralRegions
  /\ currentBound.startIdx = 1
  /\ currentBound.endIdx = 3
  /\ currentBound.oldStart = 1
  /\ currentBound.newStart = 1
  /\ ~includes(diffText.newText, CURSOR_MARKER)

\* No chunk is changed and the bound finder returns null.
C30_WitnessNull ==
  /\ diffPc = "classified"
  /\ currentDiffs # <<>>
  /\ changedChunks = {}
  /\ ~currentBound.found

\* --------------------------------------------- claims: the diff computer

\* The two diffs of the current pair.
wordDiffs == diffWords(oldTextClean, newTextClean)
charDiffs == diffChars(oldTextClean, newTextClean)

wordChanges == {i \in 1..Len(wordDiffs) : isChanged(wordDiffs[i])}

\* The trimmed value has neither a space nor a newline.
NoBreakInside(value) ==
  \A i \in 1..Len(trim(value)) : trim(value)[i] \notin {" ", "\n"}

\* C31 (amended): the chunks handed on are those of the character diff if
\* the word diff has at most two changed chunks and every changed chunk,
\* trimmed, is not empty and has neither a space nor a newline; in every
\* other case, a changed chunk of whitespace alone included, they are those
\* of the word diff.
C31_Granularity ==
  diffPc = "diffed" =>
    diffChunks =
      IF /\ Cardinality(wordChanges) <= 2
         /\ \A i \in wordChanges :
              trim(wordDiffs[i].value) # <<>> /\ NoBreakInside(wordDiffs[i].value)
        THEN charDiffs
        ELSE wordDiffs

\* C31 as stated: character diff whenever there are at most two changed
\* chunks and no trimmed changed chunk has a space or a newline.
C31_Granularity_AsStated ==
  diffPc = "diffed" =>
    diffChunks =
      IF /\ Cardinality(wordChanges) <= 2
         /\ \A i \in wordChanges : NoBreakInside(wordDiffs[i].value)
        THEN charDiffs
        ELSE wordDiffs

\* The word diff has one or two changed chunks, one of them of whitespace
\* alone; the chunks handed on are the word diff and differ from the
\* character diff.
C31_Witness ==
  /\ diffPc = "diffed"
  /\ wordChanges # {}
  /\ Cardinality(wordChanges) <= 2
  /\ \E i \in wordChanges : trim(wordDiffs[i].value) = <<>>
  /\ \A i \in wordChanges : NoBreakInside(wordDiffs[i].value)
  /\ diffChunks = wordDiffs
  /\ diffChunks # charDiffs

\* The chunks handed to the bound finder that are not added, and those
\* that are not removed, concatenated in order.
oldSide ==
  valuesOf(diffChunks, {i \in 1..Len(diffChunks) : ~diffChunks[i].added},
           Len(diffChunks))
newSide ==
  valuesOf(diffChunks, {i \in 1..Len(diffChunks) : ~diffChunks[i].removed},
           Len(diffChunks))

\* C32: the unchanged and removed chunks, concatenated in order, are the old
\* text, the unchanged and added chunks are the new text, and a bound is
\* found whenever the two texts differ.
C32_ChunksReproduce ==
  diffPc = "diffed" =>
    /\ oldSide = oldTextClean
    /\ newSide = newTextClean
    /\ oldTextClean # newTextClean => findLargestDiffBound(diffChunks).found

\* The parts of C32 that hold: the new text is reproduced, and a bound is
\* found whenever the texts differ.
C32_NewSideReproduced ==
  diffPc = "diffed" =>
    /\ newSide = newTextClean
    /\ oldTextClean # newTextClean => findLargestDiffBound(diffChunks).found

\* For the document " a" and the prediction "\na b a" the word diff is
\* kept, its unchanged chunk is the prediction's "\na", and the chunks that
\* are not added do not give back the document.
C32_OldTextLost ==
  /\ diffPc = "diffed"
  /\ diffText = [oldText |-> <<" ", "a">>,
                 newText |-> <<"\n", "a", " ", "b", " ", "a">>]
  /\ diffChunks = wordDiffs
  /\ oldSide = <<"\n", "a">>
  /\ oldSide # oldTextClean

\* ------------------------------------ claims: results of superseded fetches

\* The request was started for an earlier document than the one of the
\* plugin's last update that replaced the controller: its own controller
\* has been aborted.
Superseded(f) == f.doc < got.doc

\* C33: when the fetch of a superseded request ends, resolved or rejected,
\* the cache and the held suggestion stay as they are.
C33_SupersededResultUnused ==
  [][\A f \in fetching :
       (fetching' = fetching \ {f} /\ Superseded(f)) =>
         (suggestionCache' = suggestionCache /\ inlineSuggestion' = inlineSuggestion)]_vars

\* The request of the plugin's last update is still in flight and found no
\* entry under its key when it started, yet the cache has an entry under
\* that key: the result of the superseded request for the same text.
C33_SupersededResultCached ==
  /\ got.doc = inlineDoc.id
  /\ ~got.found
  /\ [key |-> got.key, doc |-> got.doc] \in fetching
  /\ suggestionCache[got.key] # NoEntry

\* ------------------------------------ claims: the held next-edit suggestion

Cleared == [suggestion |-> NoSuggestion, doc |-> -1]

\* C34: the held suggestion is replaced by the effect of a request that
\* ends or of the reject command when the effect's document is the current
\* one; it stays as it is when neither document nor selection changes and
\* no such effect arrives; every transaction that changes the document or
\* sets the selection without such an effect clears it; and a suggestion
\* that is held was produced for the current document.
C34_HeldChanges ==
  [][/\ doc'.id # doc.id => held' = Cleared
     /\ sel' # sel => held' = Cleared
     /\ (held.suggestion # NoSuggestion /\ held' # Cleared) => ~AcceptNepSuggestion
     /\ RejectNepSuggestion => held' = [suggestion |-> NoSuggestion, doc |-> doc.id]
     /\ \A i \in 1..Len(requests) :
          Ends(i) =>
            IF requests[i].state.doc.id = doc'.id
              THEN held'.doc = doc'.id /\ held'.suggestion # NoSuggestion
              ELSE held' = held
     /\ (/\ doc'.id = doc.id
         /\ sel' = sel
         /\ \A i \in 1..Len(requests) : ~Ends(i)
         /\ held' # held) => (AcceptNepSuggestion \/ RejectNepSuggestion)
     /\ held'.suggestion # NoSuggestion => held'.doc = doc'.id]_vars

\* The suggestion of a request that ended for the current document has been
\* cleared by a transaction that left the document as it is.
C34_Witness ==
  /\ held = Cleared
  /\ \E i \in 1..Len(requests) :
       /\ requests[i].pc = "done"
       /\ ~requests[i].stale
       /\ requests[i].state.doc.id = doc.id
       /\ requests[i].state.sel # sel

AiEnds(i) == aiRequests[i].pc = "flight" /\ aiRequests'[i].pc = "done"

\* C36: when the input is cancelled or closed while a request is in flight,
\* the abort signal of that request is set, and the end of a request whose
\* input was cancelled or closed while it was in flight changes neither the
\* document nor the completion state, also when the input has been shown
\* again since.
C36_CancelledResultUnused ==
  [][/\ (inputState.show /\ (OnCancel \/ CloseAiEditInput))
          => \A i \in 1..Len(aiRequests) :
               (aiRequests[i].pc = "flight" /\ aiRequests[i].widget = widgets)
                 => aiRequests'[i].aborted
     /\ \A i \in 1..Len(aiRequests) :
          (AiEnds(i) /\ aiRequests[i].cancelled)
            => (aiDoc' = aiDoc /\ completionState' = completionState)]_vars

\* The result of a request that was aborted while in flight has been
\* written into the document.
C36_CancelledResultApplied ==
  \E i \in 1..Len(aiRequests) :
    /\ aiRequests[i].cancelled
    /\ aiRequests[i].aborted
    /\ aiRequests[i].end = "applied"
    /\ completionState.some
    /\ completionState.by = i

\* C37: when a result is applied, the range it replaces is the extent of
\* the lines lineFrom..lineTo of the input state in the document of that
\* moment, and the recorded oldCode is the text in that range.
C37_AppliedToCurrentLines ==
  [][\A i \in 1..Len(aiRequests) :
       (AiEnds(i) /\ aiRequests'[i].end = "applied")
         => /\ CurrentExtent(aiRequests[i])
            /\ completionState'.oldCode
                 = slice(aiDoc, lineStart(aiDoc, inputState.lineFrom),
                         lineEnd(aiDoc, inputState.lineTo))]_vars

\* A result has been applied to a range that was not the extent of the
\* input's lines, although the input was never hidden while the request
\* was in flight.
C37_AppliedToStaleRange ==
  \E i \in 1..Len(aiRequests) :
    /\ aiRequests[i].end = "applied"
    /\ ~aiRequests[i].exact
    /\ ~aiRequests[i].cancelled

\* C38: when a request ends, whatever its end, the loading state is false
\* afterwards; the loading state is true only while a request is in flight.
C38_LoadingOnlyInFlight ==
  [][/\ \A i \in 1..Len(aiRequests) : AiEnds(i) => ~loadingState'
     /\ loadingState' => \E i \in 1..Len(aiRequests') : aiRequests'[i].pc = "flight"]_vars

\* The only request has ended with an invalid result or an error, and the
\* loading state is still true.
C38_LoadingStuck ==
  /\ loadingState
  /\ Len(aiRequests) = 1
  /\ aiRequests[1].pc = "done"
  /\ aiRequests[1].end \in {"invalid", "error"}

\* C39: while the input is shown, 1 <= lineFrom <= lineTo <= the number of
\* lines of the document.
C39_LinesExist ==
  inputState.show
    => /\ 1 <= inputState.lineFrom
       /\ inputState.lineFrom <= inputState.lineTo
       /\ inputState.lineTo <= docLines(aiDoc)

\* The input is shown on a line the document does not have.
C39_LineBeyondDocument ==
  /\ inputState.show
  /\ inputState.lineFrom >= 1
  /\ ~hasLine(aiDoc, inputState.lineTo)

\* C40: with no completion pending, acceptAiEdit and rejectAiEdit return
\* false and dispatch nothing; with one pending, acceptAiEdit leaves the
\* document as it is and rejectAiEdit replaces from..to with oldCode, which
\* gives the document from before the completion was applied; after
\* either, no completion is pending, the input is hidden and loading is
\* false.
C40_AcceptReject ==
  [][/\ ~completionState.some
          => /\ ~acceptAiEdit(completionState).returned
             /\ ~acceptAiEdit(completionState).dispatched
             /\ ~rejectAiEdit(completionState).returned
             /\ ~rejectAiEdit(completionState).dispatched
             /\ (AcceptAiEdit \/ RejectAiEdit) => UNCHANGED aiVars
     /\ (completionState.some /\ AcceptAiEdit)
          => /\ aiDoc' = aiDoc
             /\ ~completionState'.some /\ ~inputState'.show /\ ~loadingState'
     /\ (completionState.some /\ RejectAiEdit)
          => /\ aiDoc' = slice(aiDoc, 0, completionState.from)
                           \o completionState.oldCode
                           \o sliceFrom(aiDoc, completionState.to)
             /\ aiDoc' = completionState.before
             /\ ~completionState'.some /\ ~inputState'.show /\ ~loadingState']_vars

\* A completion has been rejected and the range that was replaced did not
\* hold the completion any more.
C40_RejectedStaleRange ==
  \E i \in 1..Len(aiRequests) :
    /\ aiRequests[i].decided = "stale"
    /\ ~completionState.some

====
